---- MODULE Spec2Model ----
(***************************************************************************)
(* Cascading-failure prediction of PRALAYA-NET.                            *)
(*                                                                         *)
(*  - CascadingRiskAnalyzer (backend/ai/graph_risk.py): disaster-aware     *)
(*    risk propagation over a NetworkX dependency graph.                   *)
(*  - DigitalTwinCascadeForecastEngine                                     *)
(*    (backend/services/digital_twin_cascade_forecast.py): continuous      *)
(*    monitor, cascade predictions, bounded history, strategies.           *)
(*                                                                         *)
(* Floating-point quantities are fixed-point integers: risks and           *)
(* severities in units of 10^-6, weights and multipliers in percent,       *)
(* coordinates in units of 10^-4 degree.                                   *)
(***************************************************************************)
EXTENDS Integers, Sequences, FiniteSets, TLC

\* ------------------------------------------------------------------------
\* Bounds of the model
\* ------------------------------------------------------------------------
MaxRuns == 2

MaxTicks == 9

MaxCalls == 2

MaxQueries == 2

\* ------------------------------------------------------------------------
\* Generic helpers
\* ------------------------------------------------------------------------
Scale == 10^6

Min(a, b) == IF a <= b THEN a ELSE b

Max(a, b) == IF a >= b THEN a ELSE b


Range(s) == {s[i] : i \in 1..Len(s)}

\* round(x, 3) of a value held in units of 10^-6: the result is in 10^-3
Round3(x) == (x + 500) \div 1000

\* ------------------------------------------------------------------------
\* config.py
\* ------------------------------------------------------------------------
HIGH_RISK == 800000

CRITICAL_INFRA ==
    << [id |-> "power_grid_1",   type |-> "power",      lat |-> 286139, lon |-> 772090],
       [id |-> "hospital_1",     type |-> "healthcare", lat |-> 287041, lon |-> 771025],
       [id |-> "water_supply_1", type |-> "water",      lat |-> 285355, lon |-> 773910],
       [id |-> "telecom_1",      type |-> "telecom",    lat |-> 285562, lon |-> 771000] >>

\* ------------------------------------------------------------------------
\* CascadingRiskAnalyzer: inputs
\* ------------------------------------------------------------------------
DisasterTypes == {"fire", "earthquake", "landslide"}

Severities == {500000, 900000, 1500000}

AtPowerGrid == [lat |-> 286139, lon |-> 772090]

AtWaterSupply == [lat |-> 285355, lon |-> 773910]

AtHospital == [lat |-> 287041, lon |-> 771025]

AtTelecom == [lat |-> 285562, lon |-> 771000]

FarA == [lat |-> 280000, lon |-> 770000]

FarB == [lat |-> 280100, lon |-> 770000]

Locations == {AtPowerGrid, AtWaterSupply, AtHospital, AtTelecom, FarA, FarB}

\* the initial_disaster dictionaries handed to analyze_cascading_risk
Triggers == [type : DisasterTypes, severity : Severities, location : Locations]

propagation_steps == 4

VARIABLES
    graph_nodes,    \* self.graph: node ids in insertion order
    graph_attr,     \* self.graph.nodes[n]: type, lat, lon, risk, resilience
    graph_edges,    \* self.graph: edges in insertion order
    node_risks,     \* self.node_risks
    run,            \* locals of the analyze_cascading_risk call in progress
    runs            \* number of analyze_cascading_risk calls made

avars == <<graph_nodes, graph_attr, graph_edges, node_risks, run, runs>>

\* ------------------------------------------------------------------------
\* CascadingRiskAnalyzer._build_infrastructure_graph
\* ------------------------------------------------------------------------
SeedEdges ==
    << [source |-> "power_grid_1",   target |-> "hospital_1",     weight |-> 95, delay_minutes |-> 15],
       [source |-> "power_grid_1",   target |-> "water_supply_1", weight |-> 85, delay_minutes |-> 30],
       [source |-> "power_grid_1",   target |-> "telecom_1",      weight |-> 80, delay_minutes |-> 20],
       [source |-> "water_supply_1", target |-> "hospital_1",     weight |-> 70, delay_minutes |-> 60],
       [source |-> "water_supply_1", target |-> "telecom_1",      weight |-> 50, delay_minutes |-> 45],
       [source |-> "telecom_1",      target |-> "hospital_1",     weight |-> 60, delay_minutes |-> 120],
       [source |-> "hospital_1",     target |-> "power_grid_1",   weight |-> 30, delay_minutes |-> 240] >>

SeedNodes == [i \in 1..Len(CRITICAL_INFRA) |-> CRITICAL_INFRA[i].id]

SeedAttr ==
    [n \in Range(SeedNodes) |->
        LET infra == CHOOSE c \in Range(CRITICAL_INFRA) : c.id = n
        IN  [type |-> infra.type, lat |-> infra.lat, lon |-> infra.lon,
             risk |-> 0, resilience |-> 50]]

IdleRun ==
    [pc               |-> "idle",
     initial_disaster |-> [type |-> "none", severity |-> 0, location |-> AtPowerGrid],
     affected_node    |-> "None",
     initial_risk     |-> 0,
     step             |-> 0,
     affected_nodes   |-> << >>,
     new_affected     |-> << >>,
     propagation_path |-> << >>,
     work             |-> << >>,
     updates          |-> 0,
     result           |-> [propagation_path |-> << >>, cascade_timeline |-> << >>,
                           risks |-> << >>, critical_nodes |-> << >>, max_risk |-> 0]]

FreshAnalyzer ==
    [graph_nodes |-> SeedNodes,
     graph_attr  |-> SeedAttr,
     graph_edges |-> SeedEdges,
     node_risks  |-> [n \in Range(SeedNodes) |-> 0],
     run         |-> IdleRun]

\* ------------------------------------------------------------------------
\* CascadingRiskAnalyzer._find_nearest_node
\* d2 is the squared distance; min_distance < 0.05 is d2 < 500^2
\* ------------------------------------------------------------------------
Dist2(attr, location) ==
    (attr.lat - location.lat) * (attr.lat - location.lat)
  + (attr.lon - location.lon) * (attr.lon - location.lon)

RECURSIVE NearestFrom(_, _, _, _, _, _)
NearestFrom(nodes, attr, location, i, min_d2, nearest) ==
    IF i > Len(nodes) THEN [d2 |-> min_d2, node |-> nearest]
    ELSE LET d2 == Dist2(attr[nodes[i]], location)
         IN  IF min_d2 < 0 \/ d2 < min_d2
             THEN NearestFrom(nodes, attr, location, i + 1, d2, nodes[i])
             ELSE NearestFrom(nodes, attr, location, i + 1, min_d2, nearest)

find_nearest_node(s, location) ==
    LET best == NearestFrom(s.graph_nodes, s.graph_attr, location, 1, -1, "None")
    IN  IF best.d2 >= 0 /\ best.d2 < 500 * 500 THEN best.node ELSE "None"

\* ------------------------------------------------------------------------
\* CascadingRiskAnalyzer._create_virtual_affected_node
\* returns the analyzer with the node "disaster_zone" added when absent
\* ------------------------------------------------------------------------
VirtualEdges ==
    [i \in 1..Len(CRITICAL_INFRA) |->
        [source |-> "disaster_zone", target |-> CRITICAL_INFRA[i].id,
         weight |-> 70, delay_minutes |-> 60]]

create_virtual_affected_node(s, location, disaster_type) ==
    IF "disaster_zone" \in Range(s.graph_nodes) THEN s
    ELSE [s EXCEPT
            !.graph_nodes = Append(@, "disaster_zone"),
            !.graph_attr  = @ @@ ("disaster_zone" :>
                               [type |-> disaster_type, lat |-> location.lat,
                                lon |-> location.lon, risk |-> 0,
                                resilience |-> 50]),
            !.node_risks  = @ @@ ("disaster_zone" :> 0),
            !.graph_edges = @ \o VirtualEdges]

\* ------------------------------------------------------------------------
\* CascadingRiskAnalyzer._calculate_initial_impact
\* ------------------------------------------------------------------------
impact_matrix(disaster_type, node_type) ==
    CASE disaster_type = "flood" /\ node_type = "power"           -> 85
      [] disaster_type = "flood" /\ node_type = "water"           -> 70
      [] disaster_type = "flood" /\ node_type = "healthcare"      -> 75
      [] disaster_type = "flood" /\ node_type = "telecom"         -> 65
      [] disaster_type = "fire" /\ node_type = "power"            -> 90
      [] disaster_type = "fire" /\ node_type = "water"            -> 50
      [] disaster_type = "fire" /\ node_type = "healthcare"       -> 80
      [] disaster_type = "fire" /\ node_type = "telecom"          -> 85
      [] disaster_type = "earthquake" /\ node_type = "power"      -> 95
      [] disaster_type = "earthquake" /\ node_type = "water"      -> 85
      [] disaster_type = "earthquake" /\ node_type = "healthcare" -> 90
      [] disaster_type = "earthquake" /\ node_type = "telecom"    -> 90
      [] disaster_type = "cyclone" /\ node_type = "power"         -> 80
      [] disaster_type = "cyclone" /\ node_type = "water"         -> 70
      [] disaster_type = "cyclone" /\ node_type = "healthcare"    -> 75
      [] disaster_type = "cyclone" /\ node_type = "telecom"       -> 85
      [] OTHER                                                    -> 75

\* lines 247-280 without the multiplier of line 277
calculate_initial_impact_unweighted(s, disaster_type, severity, node_id) ==
    Min(Scale, severity)

calculate_initial_impact(s, disaster_type, severity, node_id) ==
    LET node_type       == s.graph_attr[node_id].type
        base_multiplier == impact_matrix(disaster_type, node_type)
        initial_risk    == (severity * base_multiplier) \div 100
    IN  Min(Scale, initial_risk)

\* ------------------------------------------------------------------------
\* CascadingRiskAnalyzer._get_risk_modifier (percent)
\* ------------------------------------------------------------------------
get_risk_modifier(s, disaster_type, target_node, source_node) ==
    LET target_type == s.graph_attr[target_node].type
        source_type == s.graph_attr[source_node].type
    IN  IF disaster_type = "flood"
        THEN IF source_type = "water" /\ target_type = "power" THEN 120 ELSE 100
        ELSE IF disaster_type = "fire"
        THEN IF source_type = "power" /\ target_type \in {"telecom", "healthcare"}
             THEN 115 ELSE 100
        ELSE IF disaster_type = "earthquake" THEN 110
        ELSE 100

\* ------------------------------------------------------------------------
\* CascadingRiskAnalyzer.analyze_cascading_risk
\* affected_nodes and new_affected are Python dicts: sequences of entries
\* in insertion order, one entry per key
\* ------------------------------------------------------------------------
HasKey(d, k) == \E i \in 1..Len(d) : d[i].node = k

Entry(d, k) == d[CHOOSE i \in 1..Len(d) : d[i].node = k]

\* d[k] = entry: an existing key keeps its position
DictSet(d, entry) ==
    IF HasKey(d, entry.node)
    THEN [i \in 1..Len(d) |-> IF d[i].node = entry.node THEN entry ELSE d[i]]
    ELSE Append(d, entry)

\* d.update(other)
RECURSIVE DictUpdate(_, _)
DictUpdate(d, other) ==
    IF other = << >> THEN d
    ELSE DictUpdate(DictSet(d, Head(other)), Tail(other))

\* self.graph.successors(node_id) with the edge data, in adjacency order
OutEdges(edges, node_id) == SelectSeq(edges, LAMBDA e : e.source = node_id)

\* the (node_id, neighbor) pairs one pass of the step loop visits, in order
RECURSIVE WorkList(_, _, _)
WorkList(aff, edges, i) ==
    IF i > Len(aff) THEN << >>
    ELSE LET out == OutEdges(edges, aff[i].node)
         IN  [j \in 1..Len(out) |->
                [node_id       |-> aff[i].node,
                 neighbor      |-> out[j].target,
                 edge_weight   |-> out[j].weight,
                 delay_minutes |-> out[j].delay_minutes,
                 current_risk  |-> aff[i].risk,
                 current_time  |-> aff[i].time_minutes]]
             \o WorkList(aff, edges, i + 1)

\* lines 69-93: locate the node, set the initial risk, start the tracking
analyze_start(s0, initial_disaster) ==
    LET disaster_type == initial_disaster.type
        severity      == initial_disaster.severity
        location      == initial_disaster.location
        nearest       == find_nearest_node(s0, location)
        s             == IF nearest = "None"
                         THEN create_virtual_affected_node(s0, location, disaster_type)
                         ELSE s0
        affected_node == IF nearest = "None" THEN "disaster_zone" ELSE nearest
        initial_risk  == calculate_initial_impact(s, disaster_type, severity, affected_node)
        affected_nodes == << [node |-> affected_node, risk |-> initial_risk,
                              step |-> 0, time_minutes |-> 0] >>
    IN  [s EXCEPT
            !.node_risks = [@ EXCEPT ![affected_node] = initial_risk],
            !.graph_attr = [@ EXCEPT ![affected_node].risk = initial_risk],
            !.run = [IdleRun EXCEPT
                        !.pc               = "propagating",
                        !.initial_disaster = initial_disaster,
                        !.affected_node    = affected_node,
                        !.initial_risk     = initial_risk,
                        !.step             = 1,
                        !.affected_nodes   = affected_nodes,
                        !.propagation_path = << affected_node >>,
                        !.work             = WorkList(affected_nodes, s.graph_edges, 1)]]

\* line 110: the neighbor was recorded at an earlier step
already_processed(affected_nodes, neighbor, step) ==
    HasKey(affected_nodes, neighbor) /\ Entry(affected_nodes, neighbor).step < step

\* lines 114-122
final_risk_of(s, w) ==
    LET base_propagated   == (w.current_risk * w.edge_weight) \div 100
        risk_modifier     == get_risk_modifier(s, s.run.initial_disaster.type,
                                               w.neighbor, w.node_id)
        propagated_risk   == (base_propagated * risk_modifier) \div 100
        target_resilience == s.graph_attr[w.neighbor].resilience
    IN  (propagated_risk * (1000 - target_resilience * 3)) \div 1000

\* lines 104-136 without the guards of lines 110 and 128: the neighbor's risk
\* is overwritten by whatever arrives over the edge
propagate_edge_overwrite(s) ==
    LET w          == Head(s.run.work)
        final_risk == final_risk_of(s, w)
    IN  [s EXCEPT
            !.node_risks = [@ EXCEPT ![w.neighbor] = final_risk],
            !.graph_attr = [@ EXCEPT ![w.neighbor].risk = final_risk],
            !.run = [@ EXCEPT
                !.new_affected = DictSet(@, [node |-> w.neighbor, risk |-> final_risk,
                                             step |-> s.run.step,
                                             time_minutes |-> w.current_time + w.delay_minutes]),
                !.propagation_path = Append(@, w.neighbor),
                !.updates = @ + 1,
                !.work = Tail(@)]]

\* lines 104-136: one iteration of the inner loop
propagate_edge(s) ==
    LET w                   == Head(s.run.work)
        step                == s.run.step
        final_risk          == final_risk_of(s, w)
        current_target_risk == s.node_risks[w.neighbor]
        new_risk            == Max(current_target_risk, final_risk)
    IN  IF already_processed(s.run.affected_nodes, w.neighbor, step)
        THEN [s EXCEPT !.run = [@ EXCEPT !.work = Tail(@)]]
        ELSE IF new_risk > current_target_risk
        THEN [s EXCEPT
                !.node_risks = [@ EXCEPT ![w.neighbor] = new_risk],
                !.graph_attr = [@ EXCEPT ![w.neighbor].risk = new_risk],
                !.run = [@ EXCEPT
                    !.new_affected = DictSet(@, [node |-> w.neighbor, risk |-> new_risk,
                                                 step |-> step,
                                                 time_minutes |-> w.current_time + w.delay_minutes]),
                    !.propagation_path = Append(@, w.neighbor),
                    !.updates = @ + 1,
                    !.work = Tail(@)]]
        ELSE [s EXCEPT !.run = [@ EXCEPT !.work = Tail(@)]]

\* ------------------------------------------------------------------------
\* CascadingRiskAnalyzer._calculate_cascade_timeline
\* list.sort is stable: equal (step, time_minutes) keep the dict order
\* ------------------------------------------------------------------------
TimelineBefore(a, b) ==
    a.step < b.step \/ (a.step = b.step /\ a.time_minutes < b.time_minutes)

RECURSIVE InsertSorted(_, _)
InsertSorted(sorted, e) ==
    IF sorted = << >> THEN << e >>
    ELSE IF TimelineBefore(e, Head(sorted)) THEN << e >> \o sorted
    ELSE << Head(sorted) >> \o InsertSorted(Tail(sorted), e)

RECURSIVE SortTimeline(_)
SortTimeline(timeline) ==
    IF timeline = << >> THEN << >>
    ELSE InsertSorted(SortTimeline(SubSeq(timeline, 1, Len(timeline) - 1)),
                      timeline[Len(timeline)])

\* lines 306-316 without the sort of line 318: the entries in dict order
calculate_cascade_timeline_unsorted(affected_nodes) ==
    [i \in 1..Len(affected_nodes) |->
        [node_id      |-> affected_nodes[i].node,
         risk         |-> Round3(affected_nodes[i].risk),
         time_minutes |-> affected_nodes[i].time_minutes,
         step         |-> affected_nodes[i].step]]

calculate_cascade_timeline(affected_nodes) ==
    SortTimeline([i \in 1..Len(affected_nodes) |->
                    [node_id      |-> affected_nodes[i].node,
                     risk         |-> Round3(affected_nodes[i].risk),
                     time_minutes |-> affected_nodes[i].time_minutes,
                     step         |-> affected_nodes[i].step]])

\* lines 143-192: the returned dictionary
SeqMax(q) == IF q = << >> THEN 0 ELSE CHOOSE m \in Range(q) : \A x \in Range(q) : x <= m

build_result(s, affected_nodes) ==
    LET nodes_data == [i \in 1..Len(s.graph_nodes) |->
                         [id   |-> s.graph_nodes[i],
                          risk |-> Round3(s.node_risks[s.graph_nodes[i]]),
                          in_propagation_path |->
                              s.graph_nodes[i] \in Range(s.run.propagation_path)]]
    IN  [propagation_path |-> s.run.propagation_path,
         cascade_timeline |-> calculate_cascade_timeline(affected_nodes),
         risks            |-> nodes_data,
         critical_nodes   |-> SelectSeq(nodes_data,
                                        LAMBDA n : s.node_risks[n.id] >= HIGH_RISK),
         max_risk         |-> SeqMax([i \in 1..Len(nodes_data) |-> nodes_data[i].risk])]

\* lines 138-141 without the break of line 139: every run goes on to the cap
end_step_no_break(s) ==
    LET merged == DictUpdate(s.run.affected_nodes, s.run.new_affected)
    IN  IF s.run.step = propagation_steps
        THEN [s EXCEPT !.run = [@ EXCEPT
                 !.pc = "done",
                 !.affected_nodes = merged,
                 !.new_affected = << >>,
                 !.result = build_result(s, merged)]]
        ELSE [s EXCEPT !.run = [@ EXCEPT
                 !.step = @ + 1,
                 !.affected_nodes = merged,
                 !.new_affected = << >>,
                 !.work = WorkList(merged, s.graph_edges, 1)]]

\* lines 138-141 and the loop header: the end of one propagation step
end_step(s) ==
    LET merged == DictUpdate(s.run.affected_nodes, s.run.new_affected)
    IN  IF s.run.new_affected = << >>
        THEN [s EXCEPT !.run = [@ EXCEPT
                 !.pc = "done",
                 !.result = build_result(s, s.run.affected_nodes)]]
        ELSE IF s.run.step = propagation_steps
        THEN [s EXCEPT !.run = [@ EXCEPT
                 !.pc = "done",
                 !.affected_nodes = merged,
                 !.new_affected = << >>,
                 !.result = build_result(s, merged)]]
        ELSE [s EXCEPT !.run = [@ EXCEPT
                 !.step = @ + 1,
                 !.affected_nodes = merged,
                 !.new_affected = << >>,
                 !.work = WorkList(merged, s.graph_edges, 1)]]

\* ------------------------------------------------------------------------
\* CascadingRiskAnalyzer.reset_risks
\* ------------------------------------------------------------------------
reset_risks(s) ==
    [s EXCEPT
        !.node_risks = [n \in DOMAIN @ |-> 0],
        !.graph_attr = [n \in DOMAIN @ |-> [@[n] EXCEPT !.risk = 0]]]

\* the same call made on a newly constructed analyzer, run to its return
RECURSIVE RunToEnd(_)
RunToEnd(s) ==
    IF s.run.pc = "done" THEN s
    ELSE IF s.run.work # << >> THEN RunToEnd(propagate_edge(s))
    ELSE RunToEnd(end_step(s))

FreshRun(initial_disaster) == RunToEnd(analyze_start(FreshAnalyzer, initial_disaster))

\* ========================================================================
\* DigitalTwinCascadeForecastEngine
\* ========================================================================
VARIABLES
    nodes,                          \* self.nodes: health_score, current_load, redundancy_level,
                                    \* dependencies, dependents
    edges,                          \* self.edges, by edge id
    cascade_predictions,            \* self.cascade_predictions
    critical_node_analyses,         \* self.critical_node_analyses
    pre_stabilization_strategies,   \* self.pre_stabilization_strategies, in insertion order
    monitor,                        \* position of the _continuous_monitoring task
    gen,                            \* locals of the _generate_cascade_prediction call in progress
    last_call,                      \* the last predict_cascade call and what it returned
    last_forecast,                  \* what the last predict_cascade_failure call returned
    last_critical,                  \* the last get_critical_nodes call: its limit, what it
                                    \* returned, the tick it came after, and the limit and
                                    \* tick of the call before it
    counters                        \* ids handed out and calls made

evars == <<nodes, edges, cascade_predictions, critical_node_analyses,
           pre_stabilization_strategies, monitor, gen, last_call, last_forecast,
           last_critical, counters>>

\* ------------------------------------------------------------------------
\* FailureMode
\* ------------------------------------------------------------------------
FailureMode ==
    {"overload", "weather_damage", "structural_damage", "equipment_failure",
     "power_outage", "connectivity_loss"}

\* str.lower() on the failure-mode strings of the model
Lower(str) ==
    CASE str = "OVERLOAD"     -> "overload"
      [] str = "Power_Outage" -> "power_outage"
      [] str = "BOGUS"        -> "bogus"
      [] OTHER                -> str

\* FailureMode(value): the member, or "ValueError"
FailureModeOf(value) == IF value \in FailureMode THEN value ELSE "ValueError"

\* ------------------------------------------------------------------------
\* DigitalTwinCascadeForecastEngine._initialize_infrastructure_network
\* criticality and weights in percent
\* ------------------------------------------------------------------------
node_configs ==
    << [id |-> "power_main_mumbai",   type |-> "power_grid",           capacity |-> 1000, criticality |-> 95],
       [id |-> "power_suburban_1",    type |-> "power_grid",           capacity |-> 500,  criticality |-> 80],
       [id |-> "power_suburban_2",    type |-> "power_grid",           capacity |-> 500,  criticality |-> 80],
       [id |-> "power_industrial",    type |-> "power_grid",           capacity |-> 800,  criticality |-> 85],
       [id |-> "telecom_main_mumbai", type |-> "telecom_tower",        capacity |-> 100,  criticality |-> 90],
       [id |-> "telecom_south",       type |-> "telecom_tower",        capacity |-> 80,   criticality |-> 70],
       [id |-> "telecom_north",       type |-> "telecom_tower",        capacity |-> 80,   criticality |-> 70],
       [id |-> "telecom_west",        type |-> "telecom_tower",        capacity |-> 60,   criticality |-> 60],
       [id |-> "water_main_mumbai",   type |-> "water_system",         capacity |-> 2000, criticality |-> 90],
       [id |-> "water_east",          type |-> "water_system",         capacity |-> 800,  criticality |-> 75],
       [id |-> "water_west",          type |-> "water_system",         capacity |-> 800,  criticality |-> 75],
       [id |-> "bridge_sealink",      type |-> "transport_bridge",     capacity |-> 500,  criticality |-> 85],
       [id |-> "bridge_eastern",      type |-> "transport_bridge",     capacity |-> 300,  criticality |-> 70],
       [id |-> "hospital_main",       type |-> "hospital",             capacity |-> 1000, criticality |-> 95],
       [id |-> "hospital_south",      type |-> "hospital",             capacity |-> 500,  criticality |-> 80],
       [id |-> "hospital_north",      type |-> "hospital",             capacity |-> 500,  criticality |-> 80],
       [id |-> "comm_control",        type |-> "communication_center", capacity |-> 200,  criticality |-> 98],
       [id |-> "comm_backup",         type |-> "communication_center", capacity |-> 100,  criticality |-> 85] >>

dependencies ==
    << <<"power_main_mumbai", "telecom_main_mumbai", 90>>,
       <<"power_main_mumbai", "water_main_mumbai", 85>>,
       <<"power_main_mumbai", "hospital_main", 95>>,
       <<"power_main_mumbai", "comm_control", 98>>,
       <<"power_suburban_1", "telecom_south", 80>>,
       <<"power_suburban_2", "telecom_north", 80>>,
       <<"power_industrial", "bridge_sealink", 70>>,
       <<"telecom_main_mumbai", "comm_control", 90>>,
       <<"telecom_south", "hospital_south", 70>>,
       <<"telecom_north", "hospital_north", 70>>,
       <<"water_main_mumbai", "hospital_main", 90>>,
       <<"water_main_mumbai", "power_main_mumbai", 60>>,
       <<"water_east", "hospital_south", 80>>,
       <<"water_west", "hospital_north", 80>>,
       <<"bridge_sealink", "hospital_main", 60>>,
       <<"bridge_eastern", "hospital_south", 50>>,
       <<"comm_control", "power_main_mumbai", 80>>,
       <<"comm_backup", "comm_control", 90>>,
       <<"telecom_main_mumbai", "power_suburban_1", 30>>,
       <<"hospital_main", "telecom_main_mumbai", 40>>,
       <<"water_main_mumbai", "telecom_main_mumbai", 20>> >>

\* the keys of self.nodes, in insertion order
NodeIds == [i \in 1..Len(node_configs) |-> node_configs[i].id]

NodeSet == Range(NodeIds)

Config(node_id) == CHOOSE c \in Range(node_configs) : c.id = node_id

\* self.edges: edge_id f"{source}_{target}" is the pair <<source, target>>
EdgeIds == {<<dependencies[i][1], dependencies[i][2]>> : i \in 1..Len(dependencies)}

failure_propagation_weight(edge_id) ==
    LET d == CHOOSE x \in Range(dependencies) : x[1] = edge_id[1] /\ x[2] = edge_id[2]
    IN  d[3]

\* node.dependents and node.dependencies, in the order the edges were added
RECURSIVE DependentsFrom(_, _)
DependentsFrom(node_id, i) ==
    IF i > Len(dependencies) THEN << >>
    ELSE (IF dependencies[i][1] = node_id THEN << dependencies[i][2] >> ELSE << >>)
         \o DependentsFrom(node_id, i + 1)

RECURSIVE DependenciesFrom(_, _)
DependenciesFrom(node_id, i) ==
    IF i > Len(dependencies) THEN << >>
    ELSE (IF dependencies[i][2] = node_id THEN << dependencies[i][1] >> ELSE << >>)
         \o DependenciesFrom(node_id, i + 1)

\* line 285 appending the source to the source's own list
dependents_of_target(node_id) == DependenciesFrom(node_id, 1)

dependents(node_id) == DependentsFrom(node_id, 1)

node_dependencies(node_id) == DependenciesFrom(node_id, 1)

criticality_score(node_id) == Config(node_id).criticality

\* ------------------------------------------------------------------------
\* DigitalTwinCascadeForecastEngine._calculate_cascade_contribution
\* dfs_contribution returns its value and the visited set it leaves;
\* expanded lists the calls that got past line 341, with their depth
\* ------------------------------------------------------------------------
RECURSIVE dfs_contribution(_, _, _, _)
RECURSIVE dfs_loop(_, _, _, _, _)
dfs_loop(current_node, depth, deps, j, acc) ==
    IF j > Len(deps) THEN acc
    ELSE LET dependent_id == deps[j]
             weight       == failure_propagation_weight(<<current_node, dependent_id>>)
             sub          == dfs_contribution(dependent_id, depth + 1, acc.visited,
                                              acc.expanded)
         IN  IF <<current_node, dependent_id>> \in EdgeIds
             THEN dfs_loop(current_node, depth, deps, j + 1,
                           [contribution |-> acc.contribution
                                             + weight * (100 - depth * 10) * 100
                                             + (sub.contribution * weight) \div 200,
                            visited      |-> sub.visited,
                            expanded     |-> sub.expanded])
             ELSE dfs_loop(current_node, depth, deps, j + 1, acc)

\* lines 341-355 without the visited test of line 341
dfs_contribution_unvisited(current_node, depth, visited, expanded) ==
    IF depth > 5
    THEN [contribution |-> 0, visited |-> visited, expanded |-> expanded]
    ELSE dfs_loop(current_node, depth, dependents(current_node), 1,
                  [contribution |-> 0, visited |-> visited \cup {current_node},
                   expanded |-> Append(expanded, <<current_node, depth>>)])

dfs_contribution(current_node, depth, visited, expanded) ==
    IF current_node \in visited \/ depth > 5
    THEN [contribution |-> 0, visited |-> visited, expanded |-> expanded]
    ELSE dfs_loop(current_node, depth, dependents(current_node), 1,
                  [contribution |-> 0, visited |-> visited \cup {current_node},
                   expanded |-> Append(expanded, <<current_node, depth>>)])

calculate_cascade_contribution(node_id) ==
    Min(Scale, dfs_contribution(node_id, 0, {}, << >>).contribution \div 10)

\* ------------------------------------------------------------------------
\* DigitalTwinCascadeForecastEngine._calculate_critical_node_analyses
\* ------------------------------------------------------------------------
RECURSIVE SumSeq(_)
SumSeq(q) == IF q = << >> THEN 0 ELSE Head(q) + SumSeq(Tail(q))

centrality_of(node_id) ==
    LET dents == dependents(node_id)
        dencs == node_dependencies(node_id)
        total == SumSeq([i \in 1..Len(dents) |-> criticality_score(dents[i]) * 5000])
               + SumSeq([i \in 1..Len(dencs) |-> criticality_score(dencs[i]) * 3000])
        max_centrality == Max(Len(dents) + Len(dencs), 1)
    IN  Min(Scale, total \div max_centrality)

vulnerability_of(node) ==
    ((((Scale - node.health_score) * (5 - node.redundancy_level)) \div 5)
        * node.criticality_score) \div 100

analysis_of(node_id, node) ==
    LET centrality_score           == centrality_of(node_id)
        cascade_contribution_score == calculate_cascade_contribution(node_id)
        vulnerability_score        == vulnerability_of(node)
        stabilization_priority     == (centrality_score * 4) \div 10
                                    + (cascade_contribution_score * 4) \div 10
                                    + (vulnerability_score * 2) \div 10
    IN  [node_id                    |-> node_id,
         centrality_score           |-> centrality_score,
         cascade_contribution_score |-> cascade_contribution_score,
         vulnerability_score        |-> vulnerability_score,
         stabilization_priority     |-> stabilization_priority,
         recommended_actions        |->
             (IF vulnerability_score > 700000 THEN << "increase_redundancy" >> ELSE << >>)
          \o (IF centrality_score > 800000 THEN << "enhance_monitoring" >> ELSE << >>)
          \o (IF cascade_contribution_score > 700000 THEN << "pre_stabilization" >> ELSE << >>)]

calculate_critical_node_analyses(ns) ==
    [node_id \in NodeSet |-> analysis_of(node_id, ns[node_id])]

\* ------------------------------------------------------------------------
\* Inputs of the engine
\* ------------------------------------------------------------------------
\* np.random.uniform(0.98, 1.0) and np.random.uniform(0.3, 0.9) in per mille;
\* one tick applies one drawn factor and one drawn load ratio to all nodes
DecayFactors == {980}

LoadDraws == {300, 899}

\* construction draws: the nodes of one of these sets start at health 0.70
\* with one backup system, all others at health 0.95 with two
InitLowSets == {{}, {"telecom_west"}, {"water_east"}, {"telecom_west", "water_east"}}

PredictNodes == {"telecom_west", "water_east", "nonexistent_node"}

ModeStrings == {"OVERLOAD", "bogus"}

\* ------------------------------------------------------------------------
\* State of the engine as one record, for the operators below
\* ------------------------------------------------------------------------
IdleGen ==
    [pc                   |-> "idle",
     caller               |-> "none",
     initial_failure_node |-> "None",
     failure_mode         |-> "none",
     affected_nodes       |-> << >>,
     failed_nodes         |-> {},
     timeline             |-> << >>,
     current_time         |-> 0,
     total_impact         |-> 0,
     propagation_queue    |-> << >>]

NoCall == [node |-> "None", failure_mode |-> "none", outcome |-> "none", prediction_id |-> 0]

InitNodes(low) ==
    [node_id \in NodeSet |->
        [health_score      |-> IF node_id \in low THEN 700000 ELSE 950000,
         redundancy_level  |-> IF node_id \in low THEN 1 ELSE 2,
         capacity          |-> Config(node_id).capacity,
         current_load      |-> 600 * Config(node_id).capacity,
         criticality_score |-> criticality_score(node_id),
         dependencies      |-> node_dependencies(node_id),
         dependents        |-> dependents(node_id)]]

\* lines 267-277: self.edges after the loop over the dependencies
InitEdges ==
    [edge_id \in EdgeIds |->
        [source_node                |-> edge_id[1],
         target_node                |-> edge_id[2],
         failure_propagation_weight |-> failure_propagation_weight(edge_id)]]

\* predict_cascade_failure has not been called
NoForecast == [outcome |-> "none"]

\* nothing was produced and no call was made
ZeroCounters ==
    [predictions |-> 0, strategies |-> 0, ticks |-> 0, calls |-> 0, forecasts |-> 0,
     queries |-> 0]

\* get_critical_nodes has not been called
NoCritical == [limit |-> -1, result |-> << >>, tick |-> -1, previous |-> << >>]

\* lines 164-177: the engine as constructed
NewEngine(low) ==
    [nodes                        |-> InitNodes(low),
     edges                        |-> InitEdges,
     cascade_predictions          |-> << >>,
     critical_node_analyses       |-> calculate_critical_node_analyses(InitNodes(low)),
     pre_stabilization_strategies |-> << >>,
     monitor                      |-> [pc |-> "sleeping", high_risk_nodes |-> << >>],
     gen                          |-> IdleGen,
     last_call                    |-> NoCall,
     last_forecast                |-> NoForecast,
     last_critical                |-> NoCritical,
     counters                     |-> ZeroCounters]

\* ------------------------------------------------------------------------
\* DigitalTwinCascadeForecastEngine._simulate_cascade_propagation
\* ------------------------------------------------------------------------
\* lines 476-486, in units of 10^-6
failure_prob_of(e, failure_mode, current_node, dependent_id) ==
    LET dependent_node == e.nodes[dependent_id]
        weight         == e.edges[<<current_node, dependent_id>>].failure_propagation_weight
        by_health      == (weight * (Scale - dependent_node.health_score)) \div 100
        by_redundancy  == (by_health * (5 - dependent_node.redundancy_level)) \div 5
    IN  IF failure_mode = "overload" THEN (by_redundancy * 12) \div 10
        ELSE IF failure_mode = "power_outage"
                /\ Config(dependent_id).type = "power_grid"
             THEN (by_redundancy * 15) \div 10
        ELSE by_redundancy

\* lines 442-459
simulate_start(e, initial_node, failure_mode, caller) ==
    [e EXCEPT !.gen =
        [pc                   |-> "simulating",
         caller               |-> caller,
         initial_failure_node |-> initial_node,
         failure_mode         |-> failure_mode,
         affected_nodes       |-> << initial_node >>,
         failed_nodes         |-> {initial_node},
         timeline             |-> << [time_minutes |-> 0,
                                      event        |-> "initial_failure",
                                      node         |-> initial_node,
                                      source_node  |-> "None",
                                      failure_probability |-> 0,
                                      impact_score |-> e.nodes[initial_node].criticality_score] >>,
         current_time         |-> 0,
         total_impact         |-> e.nodes[initial_node].criticality_score,
         propagation_queue    |-> << <<initial_node, 0>> >>]]

\* lines 464-465 without the limit: every node taken from the queue is expanded
depth_limit_exceeded_never(depth) == FALSE

\* lines 464-465: the node taken from the queue is not expanded
depth_limit_exceeded(depth) == depth > 5

\* the dependents the draw of line 489 is made for when current_node is expanded
Candidates(e, current_node) ==
    {d \in Range(e.nodes[current_node].dependents) :
        d \notin e.gen.failed_nodes /\ <<current_node, d>> \in DOMAIN e.edges}

\* np.random.random() < failure_prob can come out as `fails`
DrawPossible(failure_prob, fails) ==
    IF fails THEN failure_prob > 0 ELSE failure_prob < Scale

\* lines 469-503: the for loop over the dependents, `failing` being the
\* candidates whose draw is below their failure probability
RECURSIVE expand_dependents(_, _, _, _, _, _)
expand_dependents(e, g, current_node, depth, deps, failing) ==
    IF deps = << >> THEN g
    ELSE LET dependent_id == Head(deps)
         IN  IF dependent_id \in failing /\ dependent_id \notin g.failed_nodes
             THEN expand_dependents(e,
                    [g EXCEPT
                        !.failed_nodes      = @ \cup {dependent_id},
                        !.affected_nodes    = Append(@, dependent_id),
                        !.timeline          = Append(@,
                            [time_minutes |-> g.current_time,
                             event        |-> "cascade_failure",
                             node         |-> dependent_id,
                             source_node  |-> current_node,
                             failure_probability |->
                                 failure_prob_of(e, g.failure_mode, current_node, dependent_id),
                             impact_score |-> e.nodes[dependent_id].criticality_score]),
                        !.total_impact      = @ + e.nodes[dependent_id].criticality_score,
                        !.propagation_queue = Append(@, <<dependent_id, depth + 1>>)],
                    current_node, depth, Tail(deps), failing)
             ELSE expand_dependents(e, g, current_node, depth, Tail(deps), failing)

\* lines 461-503, the failures written to the nodes of the store
simulate_step_applied(e, failing) ==
    LET current_node == Head(e.gen.propagation_queue)[1]
        depth        == Head(e.gen.propagation_queue)[2]
        popped       == [e.gen EXCEPT !.propagation_queue = Tail(@)]
    IN  IF depth_limit_exceeded(depth)
        THEN [e EXCEPT !.gen = popped]
        ELSE [e EXCEPT
                !.gen = expand_dependents(e, [popped EXCEPT !.current_time = @ + 5],
                                  current_node, depth,
                                  e.nodes[current_node].dependents, failing),
                !.nodes = [node_id \in DOMAIN e.nodes |->
                              IF node_id \in failing
                              THEN [e.nodes[node_id] EXCEPT !.health_score = 0]
                              ELSE e.nodes[node_id]]]

\* lines 461-503: one iteration of the while loop
simulate_step(e, failing) ==
    LET current_node == Head(e.gen.propagation_queue)[1]
        depth        == Head(e.gen.propagation_queue)[2]
        popped       == [e.gen EXCEPT !.propagation_queue = Tail(@)]
    IN  IF depth_limit_exceeded(depth)
        THEN [e EXCEPT !.gen = popped]
        ELSE [e EXCEPT !.gen =
                expand_dependents(e, [popped EXCEPT !.current_time = @ + 5],
                                  current_node, depth,
                                  e.nodes[current_node].dependents, failing)]

\* lines 505-506
cascade_probability_of(failed_nodes) ==
    Min(Scale, (Cardinality(failed_nodes) * Scale) \div Cardinality(NodeSet))

\* ------------------------------------------------------------------------
\* DigitalTwinCascadeForecastEngine._generate_pre_stabilization_strategies
\* ------------------------------------------------------------------------
\* node_id.split("_")
Tokens(node_id) ==
    CASE node_id = "power_main_mumbai"   -> << "power", "main", "mumbai" >>
      [] node_id = "power_suburban_1"    -> << "power", "suburban", "1" >>
      [] node_id = "power_suburban_2"    -> << "power", "suburban", "2" >>
      [] node_id = "power_industrial"    -> << "power", "industrial" >>
      [] node_id = "telecom_main_mumbai" -> << "telecom", "main", "mumbai" >>
      [] node_id = "telecom_south"       -> << "telecom", "south" >>
      [] node_id = "telecom_north"       -> << "telecom", "north" >>
      [] node_id = "telecom_west"        -> << "telecom", "west" >>
      [] node_id = "water_main_mumbai"   -> << "water", "main", "mumbai" >>
      [] node_id = "water_east"          -> << "water", "east" >>
      [] node_id = "water_west"          -> << "water", "west" >>
      [] node_id = "bridge_sealink"      -> << "bridge", "sealink" >>
      [] node_id = "bridge_eastern"      -> << "bridge", "eastern" >>
      [] node_id = "hospital_main"       -> << "hospital", "main" >>
      [] node_id = "hospital_south"      -> << "hospital", "south" >>
      [] node_id = "hospital_north"      -> << "hospital", "north" >>
      [] node_id = "comm_control"        -> << "comm", "control" >>
      [] node_id = "comm_backup"         -> << "comm", "backup" >>

\* edge.split("_")[1] of the edge id f"{source}_{target}"
SplitEdgeId1(edge_id) == (Tokens(edge_id[1]) \o Tokens(edge_id[2]))[2]

Prefix(q, n) == SubSeq(q, 1, Min(n, Len(q)))

RECURSIVE Flatten(_)
Flatten(qq) == IF qq = << >> THEN << >> ELSE Head(qq) \o Flatten(Tail(qq))

\* lines 526-531
critical_nodes_of(e, prediction) ==
    SelectSeq(Prefix(prediction.affected_nodes, 5),
              LAMBDA node_id :
                  /\ node_id \in DOMAIN e.critical_node_analyses
                  /\ e.critical_node_analyses[node_id].stabilization_priority > 700000)

\* lines 557-563
dependency_edges_of(e, prediction) ==
    LET first3 == Prefix(prediction.affected_nodes, 3)
    IN  Flatten([i \in 1..Len(first3) |->
            LET deps == SelectSeq(e.nodes[first3[i]].dependents,
                            LAMBDA dependent_id :
                                /\ dependent_id \in Range(prediction.affected_nodes)
                                /\ <<first3[i], dependent_id>> \in DOMAIN e.edges)
            IN  [j \in 1..Len(deps) |-> <<first3[i], deps[j]>>]])

\* lines 521-585: the strategies the call stores, in order
strategies_for(e, prediction) ==
    LET critical_nodes   == critical_nodes_of(e, prediction)
        dependency_edges == dependency_edges_of(e, prediction)
        first == IF critical_nodes # << >>
                 THEN << [target_nodes |-> critical_nodes,
                          stabilization_actions |->
                              << [action_type |-> "load_reduction",
                                  targets |-> critical_nodes],
                                 [action_type |-> "backup_activation",
                                  targets |-> Prefix(critical_nodes, 2)] >>,
                          expected_cascade_reduction |-> 600000,
                          priority_score |-> 800000] >>
                 ELSE << >>
        second == IF dependency_edges # << >>
                  THEN << [target_nodes |->
                               [i \in 1..Len(dependency_edges) |->
                                   SplitEdgeId1(dependency_edges[i])],
                           stabilization_actions |->
                               << [action_type |-> "dependency_strengthening",
                                   targets |-> dependency_edges] >>,
                           expected_cascade_reduction |-> 400000,
                           priority_score |-> 600000] >>
                  ELSE << >>
    IN  first \o second

generate_pre_stabilization_strategies(e, prediction) ==
    LET new == strategies_for(e, prediction)
        ids == [i \in 1..Len(new) |->
                   [strategy_id |-> e.counters.strategies + i] @@ new[i]]
    IN  [e EXCEPT
            !.pre_stabilization_strategies = @ \o ids,
            !.counters = [@ EXCEPT !.strategies = @ + Len(new)]]

\* ------------------------------------------------------------------------
\* DigitalTwinCascadeForecastEngine._generate_cascade_prediction
\* ------------------------------------------------------------------------
HistoryCap == 100

\* q[-n:]
LastN(q, n) == IF Len(q) > n THEN SubSeq(q, Len(q) - n + 1, Len(q)) ELSE q

\* lines 389-394, without the branch of the low health
failure_mode_of_no_health(node) ==
    IF node.current_load > 900 * node.capacity THEN "overload"
    ELSE "structural_damage"

\* lines 389-394
failure_mode_of(node) ==
    IF node.current_load > 900 * node.capacity THEN "overload"
    ELSE IF node.health_score < 600000 THEN "equipment_failure"
    ELSE "structural_damage"

\* lines 386-397: a KeyError of line 386 is caught by line 437 and the call ends
generate_start(e, initial_failure_node, caller) ==
    IF initial_failure_node \notin DOMAIN e.nodes
    THEN e
    ELSE simulate_start(e, initial_failure_node,
                        failure_mode_of(e.nodes[initial_failure_node]), caller)

\* line 434, with the gate open for every prediction
strategy_gate_open(prediction) == prediction.cascade_probability >= 0

\* line 434
strategy_gate(prediction) == prediction.cascade_probability > 700000

\* lines 399-435, keeping the oldest HistoryCap predictions
generate_finish_keep_oldest(e) ==
    LET prediction ==
            [prediction_id        |-> e.counters.predictions + 1,
             initial_failure_node |-> e.gen.initial_failure_node,
             failure_mode         |-> e.gen.failure_mode,
             cascade_probability  |-> cascade_probability_of(e.gen.failed_nodes),
             affected_nodes       |-> e.gen.affected_nodes,
             cascade_timeline     |-> e.gen.timeline,
             total_impact_score   |-> e.gen.total_impact,
             confidence           |-> 850000]
        appended == Append(e.cascade_predictions, prediction)
        stored == [e EXCEPT
                     !.cascade_predictions =
                         IF Len(appended) > HistoryCap THEN SubSeq(appended, 1, HistoryCap)
                         ELSE appended,
                     !.counters = [@ EXCEPT !.predictions = @ + 1]]
    IN  IF strategy_gate(prediction)
        THEN generate_pre_stabilization_strategies(stored, prediction)
        ELSE stored

\* lines 399-435: the prediction is built, appended, the history trimmed and
\* the strategies generated when the gate is passed
generate_finish(e) ==
    LET prediction ==
            [prediction_id        |-> e.counters.predictions + 1,
             initial_failure_node |-> e.gen.initial_failure_node,
             failure_mode         |-> e.gen.failure_mode,
             cascade_probability  |-> cascade_probability_of(e.gen.failed_nodes),
             affected_nodes       |-> e.gen.affected_nodes,
             cascade_timeline     |-> e.gen.timeline,
             total_impact_score   |-> e.gen.total_impact,
             confidence           |-> 850000]
        appended == Append(e.cascade_predictions, prediction)
        stored == [e EXCEPT
                     !.cascade_predictions =
                         IF Len(appended) > HistoryCap THEN LastN(appended, HistoryCap)
                         ELSE appended,
                     !.counters = [@ EXCEPT !.predictions = @ + 1]]
    IN  IF strategy_gate(prediction)
        THEN generate_pre_stabilization_strategies(stored, prediction)
        ELSE stored

\* ------------------------------------------------------------------------
\* DigitalTwinCascadeForecastEngine.predict_cascade
\* ------------------------------------------------------------------------
\* lines 593-598, without the filter on the node: the latest stored prediction
latest_prediction_for_any(e, initial_failure_node, failure_mode) ==
    IF e.cascade_predictions = << >>
    THEN [node |-> initial_failure_node, failure_mode |-> failure_mode,
          outcome |-> "error_no_prediction_found", prediction_id |-> 0]
    ELSE [node |-> initial_failure_node, failure_mode |-> failure_mode,
          outcome |-> "prediction",
          prediction_id |->
              e.cascade_predictions[Len(e.cascade_predictions)].prediction_id]

\* lines 593-598: the latest stored prediction of the node, or the error
latest_prediction_for(e, initial_failure_node, failure_mode) ==
    LET idx == {i \in 1..Len(e.cascade_predictions) :
                   e.cascade_predictions[i].initial_failure_node = initial_failure_node}
    IN  IF idx = {}
        THEN [node |-> initial_failure_node, failure_mode |-> failure_mode,
              outcome |-> "error_no_prediction_found", prediction_id |-> 0]
        ELSE LET last == CHOOSE i \in idx : \A j \in idx : j <= i
             IN  [node |-> initial_failure_node, failure_mode |-> failure_mode,
                  outcome |-> "prediction",
                  prediction_id |-> e.cascade_predictions[last].prediction_id]

\* the call is inside _generate_cascade_prediction
Pending(initial_failure_node, failure_mode) ==
    [node |-> initial_failure_node, failure_mode |-> failure_mode,
     outcome |-> "pending", prediction_id |-> 0]

\* lines 589-591 and 600-601, every failure-mode string taken as valid
predict_cascade_call_unvalidated(e, initial_failure_node, failure_mode) ==
    LET called  == [e EXCEPT !.counters = [@ EXCEPT !.calls = @ + 1]]
        started == generate_start(called, initial_failure_node, "api")
    IN  IF started.gen.pc = "simulating"
        THEN [started EXCEPT !.last_call = Pending(initial_failure_node, failure_mode)]
        ELSE [started EXCEPT !.last_call =
                 latest_prediction_for(started, initial_failure_node, failure_mode)]

\* lines 589-591 and 600-601: validation of the failure mode, then the
\* generation; the call goes on in simulate_step and generation_return
predict_cascade_call(e, initial_failure_node, failure_mode) ==
    LET called == [e EXCEPT !.counters = [@ EXCEPT !.calls = @ + 1]]
        failure_mode_enum == FailureModeOf(Lower(failure_mode))
    IN  IF failure_mode_enum = "ValueError"
        THEN [called EXCEPT !.last_call =
                 [node |-> initial_failure_node, failure_mode |-> failure_mode,
                  outcome |-> "error_invalid_failure_mode", prediction_id |-> 0]]
        ELSE LET started == generate_start(called, initial_failure_node, "api")
             IN  IF started.gen.pc = "simulating"
                 THEN [started EXCEPT
                          !.last_call = Pending(initial_failure_node, failure_mode)]
                 ELSE [started EXCEPT !.last_call =
                          latest_prediction_for(started, initial_failure_node, failure_mode)]

\* ------------------------------------------------------------------------
\* DigitalTwinCascadeForecastEngine.predict_cascade_failure
\* ------------------------------------------------------------------------
\* trigger_event['location']: a region name, or a value that cannot be a
\* dictionary key (the {lat, lon} dictionary the analyzer's triggers carry)
ForecastLocations == {"mumbai", "pune", "{lat, lon}"}

Hashable(location) == location # "{lat, lon}"

ForecastEvents ==
    {[location |-> location, severity |-> 500000] : location \in ForecastLocations}

\* lines 747-787: the entry of the region, the default entry, or the entry
\* of the except branch when the lookup raises TypeError.  'dependencies'
\* is a number in every entry of the table and missing in the last one.
get_infrastructure_vulnerability(trigger_event) ==
    IF ~Hashable(trigger_event.location)
    THEN [vulnerability_score |-> 500000, dependency_density |-> 500000,
          has_dependencies |-> FALSE, dependencies |-> 0]
    ELSE IF trigger_event.location = "mumbai"
    THEN [vulnerability_score |-> 650000, dependency_density |-> 800000,
          has_dependencies |-> TRUE, dependencies |-> 15]
    ELSE [vulnerability_score |-> 500000, dependency_density |-> 500000,
          has_dependencies |-> TRUE, dependencies |-> 10]

\* line 646: len(vulnerability_weights.get('dependencies', [])); len() of
\* a number raises TypeError
dependencies_len(vulnerability_weights) ==
    IF vulnerability_weights.has_dependencies
    THEN [raised |-> "TypeError", value |-> 0]
    ELSE [raised |-> "none", value |-> 0]

\* lines 672-680: what the except branch returns
forecast_fallback(error) ==
    [outcome                       |-> "returned",
     risk_score                    |-> 50,
     prediction_confidence         |-> 30,
     cascading_failure_probability |-> 25 * Scale,
     severity_level                |-> "medium",
     error                         |-> error]

\* lines 610-680.  Line 646 raises TypeError when 'dependencies' is a number;
\* otherwise line 654 raises AttributeError, the class having no method
\* get_severity_level.  Both are caught by line 672, before line 668 stores
\* anything.
predict_cascade_failure_call(e, trigger_event) ==
    LET called == [e EXCEPT !.counters = [@ EXCEPT !.forecasts = @ + 1]]
        vulnerability_weights == get_infrastructure_vulnerability(trigger_event)
    IN  IF dependencies_len(vulnerability_weights).raised = "TypeError"
        THEN [called EXCEPT !.last_forecast = forecast_fallback("TypeError")]
        ELSE [called EXCEPT !.last_forecast = forecast_fallback("AttributeError")]

\* ------------------------------------------------------------------------
\* DigitalTwinCascadeForecastEngine._continuous_monitoring
\* ------------------------------------------------------------------------
\* lines 365-371 with the health divided by the drawn factor
monitoring_update_recovering(e, factor, load) ==
    LET updated == [node_id \in NodeSet |->
                       [e.nodes[node_id] EXCEPT
                           !.health_score = (@ * 1000) \div factor,
                           !.current_load = load * e.nodes[node_id].capacity]]
        high_risk_nodes == SelectSeq(NodeIds,
                               LAMBDA node_id :
                                   \/ updated[node_id].health_score < 600000
                                   \/ updated[node_id].current_load
                                          > 900 * updated[node_id].capacity)
    IN  [e EXCEPT
            !.nodes    = updated,
            !.monitor  = [pc |-> IF high_risk_nodes = << >> THEN "sleeping" ELSE "predicting",
                          high_risk_nodes |-> high_risk_nodes],
            !.counters = [@ EXCEPT !.ticks = @ + 1]]

\* lines 365-371: the update of every node and the list of high-risk nodes
monitoring_update(e, factor, load) ==
    LET updated == [node_id \in NodeSet |->
                       [e.nodes[node_id] EXCEPT
                           !.health_score = (@ * factor) \div 1000,
                           !.current_load = load * e.nodes[node_id].capacity]]
        high_risk_nodes == SelectSeq(NodeIds,
                               LAMBDA node_id :
                                   \/ updated[node_id].health_score < 600000
                                   \/ updated[node_id].current_load
                                          > 900 * updated[node_id].capacity)
    IN  [e EXCEPT
            !.nodes    = updated,
            !.monitor  = [pc |-> IF high_risk_nodes = << >> THEN "sleeping" ELSE "predicting",
                          high_risk_nodes |-> high_risk_nodes],
            !.counters = [@ EXCEPT !.ticks = @ + 1]]

\* lines 374-375: the next high-risk node gets its prediction
monitoring_predict(e) ==
    generate_start([e EXCEPT !.monitor = [@ EXCEPT !.high_risk_nodes = Tail(@)]],
                   Head(e.monitor.high_risk_nodes), "monitor")

\* the end of a generation, the monitor's loop ending with its last prediction
generation_return_loop_ends(e, finished) ==
    IF e.gen.caller = "api"
    THEN [finished EXCEPT
             !.gen = IdleGen,
             !.last_call = latest_prediction_for(finished, e.gen.initial_failure_node,
                                                 e.last_call.failure_mode)]
    ELSE [finished EXCEPT !.gen = IdleGen]

\* the end of a generation: back in the monitor's loop (line 377 once the
\* list is exhausted) or in predict_cascade (lines 593-598)
generation_return(e, finished) ==
    IF e.gen.caller = "api"
    THEN [finished EXCEPT
             !.gen = IdleGen,
             !.last_call = latest_prediction_for(finished, e.gen.initial_failure_node,
                                                 e.last_call.failure_mode)]
    ELSE [finished EXCEPT
             !.gen = IdleGen,
             !.monitor = [@ EXCEPT !.pc = IF finished.monitor.high_risk_nodes = << >>
                                          THEN "sleeping" ELSE "predicting"]]

\* ------------------------------------------------------------------------
\* DigitalTwinCascadeForecastEngine.get_critical_nodes
\* ------------------------------------------------------------------------
\* the limit argument of the call
Limits == {0, 3, 25}

\* sorted(): an item goes behind every item placed before it whose key is
\* the same, and with reverse=True behind every one whose key is greater
RECURSIVE place(_, _)
place(item, sorted) ==
    IF sorted = << >> THEN << item >>
    ELSE IF Head(sorted).stabilization_priority >= item.stabilization_priority
         THEN << Head(sorted) >> \o place(item, Tail(sorted))
         ELSE << item >> \o sorted

RECURSIVE sorted_from(_, _, _)
sorted_from(items, i, sorted) ==
    IF i > Len(items) THEN sorted
    ELSE sorted_from(items, i + 1, place(items[i], sorted))

\* lines 942-946 without reverse=True
sorted_ascending(analyses) ==
    LET descending == sorted_from([i \in 1..Len(NodeIds) |-> analyses[NodeIds[i]]], 1, << >>)
    IN  [i \in 1..Len(descending) |-> descending[Len(descending) + 1 - i]]

\* lines 942-946: the analyses in the order of self.critical_node_analyses,
\* sorted by stabilization_priority, highest first
sorted_nodes(analyses) ==
    sorted_from([i \in 1..Len(NodeIds) |-> analyses[NodeIds[i]]], 1, << >>)

\* lines 942-948 over analyses computed from the nodes as they are now
get_critical_nodes_recomputed(e, limit) ==
    LET sorted == sorted_nodes(calculate_critical_node_analyses(e.nodes))
    IN  [e EXCEPT
            !.counters = [@ EXCEPT !.queries = @ + 1],
            !.last_critical = [limit    |-> limit,
                               result   |-> SubSeq(sorted, 1, Min(limit, Len(sorted))),
                               tick     |-> e.counters.ticks,
                               previous |-> << e.last_critical.limit,
                                               e.last_critical.tick >>]]

\* lines 942-948: sorted_nodes[:limit], each analysis as to_dict() gives it
get_critical_nodes(e, limit) ==
    LET sorted == sorted_nodes(e.critical_node_analyses)
    IN  [e EXCEPT
            !.counters = [@ EXCEPT !.queries = @ + 1],
            !.last_critical = [limit    |-> limit,
                               result   |-> SubSeq(sorted, 1, Min(limit, Len(sorted))),
                               tick     |-> e.counters.ticks,
                               previous |-> << e.last_critical.limit,
                                               e.last_critical.tick >>]]

\* ------------------------------------------------------------------------
\* DigitalTwinCascadeForecastEngine.get_pre_stabilization_strategies
\* ------------------------------------------------------------------------
\* sorted() with reverse=True on priority_score, as in place
RECURSIVE place_strategy(_, _)
place_strategy(item, sorted) ==
    IF sorted = << >> THEN << item >>
    ELSE IF Head(sorted).priority_score >= item.priority_score
         THEN << Head(sorted) >> \o place_strategy(item, Tail(sorted))
         ELSE << item >> \o sorted

RECURSIVE sorted_strategies_from(_, _, _)
sorted_strategies_from(items, i, sorted) ==
    IF i > Len(items) THEN sorted
    ELSE sorted_strategies_from(items, i + 1, place_strategy(items[i], sorted))

\* lines 951-957: sorted_strategies[:limit]
get_pre_stabilization_strategies(e, limit) ==
    LET sorted == sorted_strategies_from(e.pre_stabilization_strategies, 1, << >>)
    IN  SubSeq(sorted, 1, Min(limit, Len(sorted)))

\* ------------------------------------------------------------------------
\* Actions of the engine
\* ------------------------------------------------------------------------
Engine ==
    [nodes |-> nodes, edges |-> edges, cascade_predictions |-> cascade_predictions,
     critical_node_analyses |-> critical_node_analyses,
     pre_stabilization_strategies |-> pre_stabilization_strategies,
     monitor |-> monitor, gen |-> gen, last_call |-> last_call,
     last_forecast |-> last_forecast, last_critical |-> last_critical,
     counters |-> counters]

SetEngine(e) ==
    /\ nodes' = e.nodes
    /\ edges' = e.edges
    /\ cascade_predictions' = e.cascade_predictions
    /\ critical_node_analyses' = e.critical_node_analyses
    /\ pre_stabilization_strategies' = e.pre_stabilization_strategies
    /\ monitor' = e.monitor
    /\ gen' = e.gen
    /\ last_call' = e.last_call
    /\ last_forecast' = e.last_forecast
    /\ last_critical' = e.last_critical
    /\ counters' = e.counters

IsEngine(e) ==
    /\ nodes = e.nodes
    /\ edges = e.edges
    /\ cascade_predictions = e.cascade_predictions
    /\ critical_node_analyses = e.critical_node_analyses
    /\ pre_stabilization_strategies = e.pre_stabilization_strategies
    /\ monitor = e.monitor
    /\ gen = e.gen
    /\ last_call = e.last_call
    /\ last_forecast = e.last_forecast
    /\ last_critical = e.last_critical
    /\ counters = e.counters

InitEngine == \E low \in InitLowSets : IsEngine(NewEngine(low))

\* no task is inside a generation: the event loop can run another handler
EngineIdle == gen.pc = "idle" /\ monitor.pc = "sleeping"

MonitorTick ==
    /\ EngineIdle
    /\ counters.ticks < MaxTicks
    /\ \E factor \in DecayFactors, load \in LoadDraws :
          SetEngine(monitoring_update(Engine, factor, load))
    /\ UNCHANGED avars

MonitorPredict ==
    /\ gen.pc = "idle"
    /\ monitor.pc = "predicting"
    /\ monitor.high_risk_nodes # << >>
    /\ SetEngine(monitoring_predict(Engine))
    /\ UNCHANGED avars

PredictCascade ==
    /\ EngineIdle
    /\ counters.calls + counters.forecasts < MaxCalls
    /\ \E initial_failure_node \in PredictNodes, failure_mode \in ModeStrings :
          SetEngine(predict_cascade_call(Engine, initial_failure_node, failure_mode))
    /\ UNCHANGED avars

SimulateStep ==
    /\ gen.pc = "simulating"
    /\ gen.propagation_queue # << >>
    /\ LET current_node == Head(gen.propagation_queue)[1]
           depth        == Head(gen.propagation_queue)[2]
           candidates   == IF depth_limit_exceeded(depth) THEN {}
                           ELSE Candidates(Engine, current_node)
       IN  \E failing \in SUBSET candidates :
              /\ \A d \in candidates :
                    DrawPossible(failure_prob_of(Engine, gen.failure_mode, current_node, d),
                                 d \in failing)
              /\ SetEngine(simulate_step(Engine, failing))
    /\ UNCHANGED avars

GenerateFinish ==
    /\ gen.pc = "simulating"
    /\ gen.propagation_queue = << >>
    /\ SetEngine(generation_return(Engine, generate_finish(Engine)))
    /\ UNCHANGED avars

PredictCascadeFailure ==
    /\ EngineIdle
    /\ counters.calls + counters.forecasts < MaxCalls
    /\ \E trigger_event \in ForecastEvents :
          SetEngine(predict_cascade_failure_call(Engine, trigger_event))
    /\ UNCHANGED avars

\* the first predict_cascade call made on the engine, for any node of the store
PredictCascadeAnyNode ==
    /\ EngineIdle
    /\ counters.calls = 0
    /\ \E initial_failure_node \in NodeSet, failure_mode \in {"overload"} :
          SetEngine(predict_cascade_call(Engine, initial_failure_node, failure_mode))
    /\ UNCHANGED avars

\* _generate_pre_stabilization_strategies applied to the prediction stored
\* last, as line 435 applies it when the gate is passed
GenerateStrategies ==
    /\ EngineIdle
    /\ cascade_predictions # << >>
    /\ pre_stabilization_strategies = << >>
    /\ SetEngine(generate_pre_stabilization_strategies(
                     Engine, cascade_predictions[Len(cascade_predictions)]))
    /\ UNCHANGED avars

GetCriticalNodes ==
    /\ EngineIdle
    /\ counters.queries < MaxQueries
    /\ \E limit \in Limits : SetEngine(get_critical_nodes(Engine, limit))
    /\ UNCHANGED avars

NextEngine ==
    \/ MonitorTick
    \/ MonitorPredict
    \/ PredictCascade
    \/ PredictCascadeFailure
    \/ SimulateStep
    \/ GenerateFinish

\* ------------------------------------------------------------------------
\* Actions of the analyzer
\* ------------------------------------------------------------------------
Analyzer ==
    [graph_nodes |-> graph_nodes, graph_attr |-> graph_attr,
     graph_edges |-> graph_edges, node_risks |-> node_risks, run |-> run]

SetAnalyzer(s) ==
    /\ graph_nodes' = s.graph_nodes
    /\ graph_attr'  = s.graph_attr
    /\ graph_edges' = s.graph_edges
    /\ node_risks'  = s.node_risks
    /\ run'         = s.run

InitAnalyzer ==
    /\ graph_nodes = FreshAnalyzer.graph_nodes
    /\ graph_attr  = FreshAnalyzer.graph_attr
    /\ graph_edges = FreshAnalyzer.graph_edges
    /\ node_risks  = FreshAnalyzer.node_risks
    /\ run         = FreshAnalyzer.run
    /\ runs        = 0

AnalyzeStart ==
    /\ run.pc \in {"idle", "done"}
    /\ runs < MaxRuns
    /\ \E initial_disaster \in Triggers :
          SetAnalyzer(analyze_start(Analyzer, initial_disaster))
    /\ runs' = runs + 1
    /\ UNCHANGED evars

PropagateEdge ==
    /\ run.pc = "propagating"
    /\ run.work # << >>
    /\ SetAnalyzer(propagate_edge(Analyzer))
    /\ UNCHANGED runs
    /\ UNCHANGED evars

EndStep ==
    /\ run.pc = "propagating"
    /\ run.work = << >>
    /\ SetAnalyzer(end_step(Analyzer))
    /\ UNCHANGED runs
    /\ UNCHANGED evars

ResetRisks ==
    /\ run.pc \in {"idle", "done"}
    /\ SetAnalyzer(reset_risks(Analyzer))
    /\ UNCHANGED runs
    /\ UNCHANGED evars

NextAnalyzer == AnalyzeStart \/ PropagateEdge \/ EndStep \/ ResetRisks

\* ------------------------------------------------------------------------
\* Specifications
\* ------------------------------------------------------------------------
vars == <<avars, evars>>

\* the analyzer as constructed, under any sequence of calls
InitAnalyzerOnly ==
    /\ InitAnalyzer
    /\ IsEngine(NewEngine({}))

SpecAnalyzer == InitAnalyzerOnly /\ [][NextAnalyzer]_vars

\* the engine as constructed, under monitor ticks and predict_cascade calls
Init == InitAnalyzer /\ InitEngine

Spec == Init /\ [][NextEngine]_vars

\* the engine after HistoryCap - 1 calls predict_cascade("telecom_west",
\* "overload") made before the monitor's first tick
AfterLeafCall(e) ==
    LET called == simulate_step(predict_cascade_call(e, "telecom_west", "overload"), {})
    IN  generation_return(called, generate_finish(called))

AfterLeafCalls(e, n) ==
    LET once == AfterLeafCall(e)
    IN  [once EXCEPT
            !.cascade_predictions =
                [i \in 1..n |-> [once.cascade_predictions[1] EXCEPT !.prediction_id = i]],
            !.last_call = [@ EXCEPT !.prediction_id = n],
            !.counters  = [@ EXCEPT !.predictions = n, !.calls = 0]]

InitHistory ==
    /\ InitAnalyzer
    /\ IsEngine(AfterLeafCalls(NewEngine({"telecom_west"}), HistoryCap - 1))

SpecHistory == InitHistory /\ [][NextEngine]_vars

\* the monitor task alone: asyncio runs the task whenever it can take a step
\* (the sleep of line 377 ends, the loops of a tick go on)
NextMonitor == MonitorTick \/ MonitorPredict \/ SimulateStep \/ GenerateFinish

SpecMonitor ==
    /\ Init
    /\ [][NextMonitor]_vars
    /\ WF_vars(MonitorTick)
    /\ WF_vars(MonitorPredict)
    /\ WF_vars(SimulateStep)
    /\ WF_vars(GenerateFinish)

\* the analyzer and the engine in one process: the two objects share no
\* state, so every behaviour of either one is a behaviour of that object
\* taken while the other is still as constructed
EngineAsConstructed == counters = ZeroCounters /\ EngineIdle

AnalyzerAsConstructed == runs = 0 /\ run.pc = "idle"

InitBoth ==
    /\ InitAnalyzer
    /\ IsEngine(NewEngine({"telecom_west", "water_east"}))

NextBoth ==
    \/ EngineAsConstructed /\ NextAnalyzer
    \/ AnalyzerAsConstructed /\ NextEngine

SpecBoth == InitBoth /\ [][NextBoth]_vars

\* the monitor task and one predict_cascade call, made for any node
NextSeed ==
    \/ MonitorTick
    \/ MonitorPredict
    \/ PredictCascadeAnyNode
    \/ SimulateStep
    \/ GenerateFinish

SpecSeed == InitBoth /\ [][NextSeed]_vars

\* _generate_pre_stabilization_strategies on the predictions that
\* predict_cascade produces for the nodes of the store
NextStrategies ==
    \/ PredictCascadeAnyNode
    \/ SimulateStep
    \/ GenerateFinish
    \/ GenerateStrategies

SpecStrategies == InitBoth /\ [][NextStrategies]_vars

\* the runs of _simulate_cascade_propagation that predict_cascade starts for
\* the nodes of the store; each iteration of the while loop is followed by
\* the next one, and the end of the loop by the return
NextRuns ==
    \/ PredictCascadeAnyNode
    \/ SimulateStep
    \/ GenerateFinish

SpecRuns ==
    /\ InitBoth
    /\ [][NextRuns]_vars
    /\ WF_vars(SimulateStep)
    /\ WF_vars(GenerateFinish)

\* the monitor task and the callers of get_critical_nodes
NextQueries ==
    \/ MonitorTick
    \/ MonitorPredict
    \/ SimulateStep
    \/ GenerateFinish
    \/ GetCriticalNodes

SpecQueries == Init /\ [][NextQueries]_vars

\* ========================================================================
\* Claims about CascadingRiskAnalyzer
\* ========================================================================
RunStarts == run.pc # "propagating" /\ run'.pc = "propagating"

\* the loops of a run advance: every step of a run in progress ends the run,
\* moves to the next propagation step or consumes one edge of the current
\* pass
RunAdvances ==
    run.pc = "propagating" =>
        \/ run'.pc = "done"
        \/ run'.pc = "propagating" /\ run'.step > run.step
        \/ run'.pc = "propagating" /\ run'.step = run.step
              /\ Len(run'.work) < Len(run.work)

\* the largest number of successors of any node of the graph
MaxOutDegree ==
    LET deg(n) == Len(OutEdges(graph_edges, n))
    IN  CHOOSE d \in {deg(n) : n \in Range(graph_nodes)} :
            \A n \in Range(graph_nodes) : deg(n) <= d

\* C1: when the propagation of a run starts, every node other than the
\* initial node has working risk 0, whatever runs were made before.
C1_PrivateRiskMap ==
    [][RunStarts =>
        \A n \in DOMAIN node_risks' :
            n # run'.affected_node => node_risks'[n] = 0]_vars

\* C2: a run returns the propagation_path, cascade_timeline and node risks
\* that the same trigger returns on a fresh analyzer.
C2_RunIsPureFunction ==
    run.pc = "done" =>
        LET fresh == FreshRun(run.initial_disaster).run.result
        IN  /\ run.result.propagation_path = fresh.propagation_path
            /\ run.result.cascade_timeline = fresh.cascade_timeline
            /\ \A i \in 1..Len(fresh.risks) :
                   run.result.risks[i].risk = fresh.risks[i].risk

\* C3: across the update steps of a run (the visits of the edges, lines
\* 104-136, and the ends of the propagation steps) no node's working risk
\* decreases, whatever risks earlier runs left in node_risks.  The assignment
\* of the initial risk (line 84) starts the run and is not an update step.
C3_RiskNeverDecreases ==
    [][run.pc = "propagating" =>
        \A n \in DOMAIN node_risks : node_risks'[n] >= node_risks[n]]_vars

\* an update step of a later run has raised a risk while another node still
\* carries the risk an earlier run left
C3_Witness ==
    /\ runs >= 2
    /\ run.pc = "propagating"
    /\ run.updates >= 1
    /\ \E n \in DOMAIN node_risks :
          /\ ~HasKey(run.affected_nodes, n)
          /\ ~HasKey(run.new_affected, n)
          /\ node_risks[n] > 0

\* C4: a run makes at most propagation_steps * maxOutDegree risk updates,
\* never goes past the step cap, ends at the first step without an update
\* or at the cap, and terminates (each step of it advances its loops).
C4_BoundedRun ==
    /\ [](run.pc # "idle" =>
            /\ run.step <= propagation_steps
            /\ run.updates <= propagation_steps * MaxOutDegree)
    /\ [][(run.pc = "propagating" /\ run.work = << >> /\ run.new_affected = << >>)
            => run'.pc = "done"]_vars
    /\ [][(run.pc = "propagating" /\ run'.pc = "done")
            => (run.new_affected = << >> \/ run.step = propagation_steps)]_vars
    /\ [][RunAdvances]_vars

\* a finished run that went round the cycle hospital_1 -> power_grid_1 and
\* ended at a step without an update
C4_Witness ==
    /\ run.pc = "done"
    /\ run.step >= 3
    /\ run.updates >= 3
    /\ \E i \in 1..Len(run.affected_nodes) :
          /\ run.affected_nodes[i].node = run.affected_node
          /\ HasKey(run.affected_nodes, "hospital_1")
          /\ HasKey(run.affected_nodes, "power_grid_1")

\* C5: a run started at power_grid_1 terminates, and no step of it lowers
\* power_grid_1's working risk, the visit of the return edge
\* hospital_1 -> power_grid_1 included.
C5_CycleSafety ==
    /\ [][(run.pc = "propagating" /\ run.affected_node = "power_grid_1")
            => node_risks'["power_grid_1"] >= node_risks["power_grid_1"]]_vars
    /\ [](run.affected_node = "power_grid_1" => run.step <= propagation_steps)
    /\ [][run.affected_node = "power_grid_1" => RunAdvances]_vars

\* a finished run from power_grid_1 whose second pass visited hospital_1's
\* return edge
C5_Witness ==
    /\ run.pc = "done"
    /\ run.affected_node = "power_grid_1"
    /\ run.step >= 2
    /\ HasKey(run.affected_nodes, "hospital_1")
    /\ Entry(run.affected_nodes, "hospital_1").step = 1
    /\ \E i \in 1..Len(graph_edges) :
          /\ graph_edges[i].source = "hospital_1"
          /\ graph_edges[i].target = "power_grid_1"
          /\ graph_edges[i].weight = 30
    /\ node_risks["power_grid_1"] = run.initial_risk

\* ========================================================================
\* Claims about DigitalTwinCascadeForecastEngine
\* ========================================================================
\* a predict_cascade call was made in this step
CallMade == counters'.calls = counters.calls + 1

\* a prediction was produced in this step
PredictionProduced == counters'.predictions = counters.predictions + 1

Last(q) == q[Len(q)]

\* C6: the history holds at most HistoryCap predictions, in the order they
\* were produced, and they are the newest ones: the k-th prediction produced
\* is stored while fewer than HistoryCap predictions came after it.
C6_BoundedHistory ==
    /\ Len(cascade_predictions) <= HistoryCap
    /\ Len(cascade_predictions) = Min(counters.predictions, HistoryCap)
    /\ \A i \in 1..Len(cascade_predictions) :
          cascade_predictions[i].prediction_id
              = counters.predictions - Len(cascade_predictions) + i

\* the oldest predictions have been evicted
C6_Witness ==
    /\ counters.predictions > HistoryCap
    /\ Len(cascade_predictions) = HistoryCap
    /\ cascade_predictions[1].prediction_id > 1
    /\ Last(cascade_predictions).prediction_id = counters.predictions

\* C7: predict_cascade with a node id that is not in the graph store and a
\* valid failure mode returns the not-found error and leaves the history
\* and the strategy store as they were.
C7_UnknownNode ==
    [][(/\ CallMade
        /\ last_call'.node \notin NodeSet
        /\ FailureModeOf(Lower(last_call'.failure_mode)) # "ValueError")
       => /\ last_call'.outcome = "error_no_prediction_found"
          /\ cascade_predictions' = cascade_predictions
          /\ pre_stabilization_strategies' = pre_stabilization_strategies]_vars

C7_Witness ==
    /\ last_call.node = "nonexistent_node"
    /\ last_call.failure_mode = "OVERLOAD"
    /\ last_call.outcome = "error_no_prediction_found"
    /\ cascade_predictions # << >>

\* C8: predict_cascade with a failure-mode string that is no FailureMode
\* value returns the validation error; no propagation is started and nodes,
\* history, analyses and strategies are unchanged.
C8_InvalidFailureMode ==
    [][(/\ CallMade
        /\ FailureModeOf(Lower(last_call'.failure_mode)) = "ValueError")
       => /\ last_call'.outcome = "error_invalid_failure_mode"
          /\ gen' = gen
          /\ gen'.pc = "idle"
          /\ UNCHANGED <<nodes, cascade_predictions, critical_node_analyses,
                         pre_stabilization_strategies, monitor>>]_vars

C8_Witness ==
    /\ last_call.node \in NodeSet
    /\ last_call.failure_mode = "bogus"
    /\ last_call.outcome = "error_invalid_failure_mode"
    /\ gen.pc = "idle"

\* C9: the strategy store changes only in the step that produces a
\* prediction whose cascade_probability exceeds 0.7; a prediction at or
\* below the gate leaves it unchanged.
C9_GateLowerSide ==
    [][(\/ ~PredictionProduced
        \/ Last(cascade_predictions').cascade_probability <= 700000)
       => pre_stabilization_strategies' = pre_stabilization_strategies]_vars

\* a stored prediction below the gate whose cascade went over a dependency
\* edge, with nothing in the strategy store
C9_Witness ==
    /\ cascade_predictions # << >>
    /\ Last(cascade_predictions).cascade_probability <= 700000
    /\ Len(Last(cascade_predictions).affected_nodes) >= 2
    /\ pre_stabilization_strategies = << >>

\* ========================================================================
\* Claims about the monitor and the critical node analyses
\* ========================================================================
\* C11: the stored CriticalNodeAnalysis of every node is the one computed
\* from the node's current state: its vulnerability_score is
\* (1 - health_score) * (1 - redundancy_level/5) * criticality_score of the
\* current health_score, and its stabilization_priority the weighted sum
\* using that value.
C11_AnalysesAreCurrent ==
    \A node_id \in NodeSet :
        /\ critical_node_analyses[node_id].vulnerability_score
              = vulnerability_of(nodes[node_id])
        /\ critical_node_analyses[node_id].stabilization_priority
              = analysis_of(node_id, nodes[node_id]).stabilization_priority

\* a stored prediction can be read: it has its initial node first in
\* affected_nodes and a timeline entry for every affected node
ReadablePrediction(prediction) ==
    /\ prediction.initial_failure_node \in NodeSet
    /\ prediction.affected_nodes # << >>
    /\ Head(prediction.affected_nodes) = prediction.initial_failure_node
    /\ Len(prediction.cascade_timeline) = Len(prediction.affected_nodes)

Flagged(ns, node_id) ==
    \/ ns[node_id].health_score < 600000
    \/ ns[node_id].current_load > 900 * ns[node_id].capacity

\* the failure mode C13 gives a flagged node
ExpectedMode(ns, node_id) ==
    IF ns[node_id].current_load > 900 * ns[node_id].capacity
    THEN "overload" ELSE "equipment_failure"

\* C13: a tick flags exactly the nodes with health_score < 0.6 or load ratio
\* > 0.9 after its update; each flagged node gets exactly one propagation
\* run (the runs are made one after the other on unchanged nodes, each ends
\* with one prediction for its node, and the tick ends only when the list
\* is exhausted); the run's failure mode is overload when the load ratio
\* exceeds 0.9, otherwise equipment_failure, never structural_damage.
C13_MonitorFailureModes ==
    /\ [][counters'.ticks = counters.ticks + 1 =>
            monitor'.high_risk_nodes
                = SelectSeq(NodeIds, LAMBDA node_id : Flagged(nodes', node_id))]_vars
    /\ [][(monitor.pc = "predicting" /\ gen.pc = "idle") =>
            /\ monitor.high_risk_nodes # << >>
            /\ monitor'.high_risk_nodes = Tail(monitor.high_risk_nodes)
            /\ gen'.pc = "simulating"
            /\ gen'.caller = "monitor"
            /\ gen'.initial_failure_node = Head(monitor.high_risk_nodes)
            /\ gen'.failure_mode = ExpectedMode(nodes, Head(monitor.high_risk_nodes))
            /\ gen'.failure_mode # "structural_damage"]_vars
    /\ [][gen.caller = "monitor" =>
            /\ nodes' = nodes
            /\ \/ /\ gen'.pc = "simulating"
                  /\ cascade_predictions' = cascade_predictions
                  /\ monitor' = monitor
               \/ /\ gen'.pc = "idle"
                  /\ counters'.predictions = counters.predictions + 1
                  /\ Last(cascade_predictions').initial_failure_node
                        = gen.initial_failure_node
                  /\ Last(cascade_predictions').failure_mode = gen.failure_mode
                  /\ Last(cascade_predictions').failure_mode # "structural_damage"
                  /\ monitor'.high_risk_nodes = monitor.high_risk_nodes
                  /\ monitor'.pc = "sleeping" <=> monitor.high_risk_nodes = << >>]_vars

\* a tick flagged two nodes and made one equipment_failure prediction for
\* each of them, in the order of self.nodes
C13_Witness ==
    /\ monitor.pc = "sleeping"
    /\ counters.calls = 0
    /\ Len(cascade_predictions) >= 2
    /\ LET n == Len(cascade_predictions)
       IN  /\ cascade_predictions[n - 1].initial_failure_node = "telecom_west"
           /\ cascade_predictions[n].initial_failure_node = "water_east"
           /\ cascade_predictions[n - 1].failure_mode = "equipment_failure"
           /\ cascade_predictions[n].failure_mode = "equipment_failure"
           /\ Flagged(nodes, "telecom_west")
           /\ Flagged(nodes, "water_east")

\* ========================================================================
\* Claims about the outcomes of predict_cascade and predict_cascade_failure
\* ========================================================================
\* a predict_cascade_failure call was made in this step
ForecastCallMade == counters'.forecasts = counters.forecasts + 1

\* the fields of a prediction of predict_cascade_failure (lines 650-657)
ForecastNumbers ==
    {"risk_score", "prediction_confidence", "cascading_failure_probability",
     "severity_level"}

\* C14: a call in which the generation of the prediction fails returns an
\* error outcome and no prediction record: predict_cascade returns neither
\* a stored prediction nor anything else than its error, predict_cascade_failure
\* returns no record carrying prediction numbers, and the history is not
\* appended to.
C14_NoFakeSuccess ==
    [][/\ (CallMade /\ gen'.pc = "idle") =>
            /\ last_call'.outcome
                  \in {"error_no_prediction_found", "error_invalid_failure_mode"}
            /\ cascade_predictions' = cascade_predictions
       /\ (ForecastCallMade /\ "error" \in DOMAIN last_forecast') =>
            /\ DOMAIN last_forecast' \cap ForecastNumbers = {}
            /\ cascade_predictions' = cascade_predictions]_vars

\* ========================================================================
\* Claims about the inputs and the graph of CascadingRiskAnalyzer
\* ========================================================================
\* an analyze_cascading_risk call was made in this step
AnalyzeCalled == runs' = runs + 1

\* C15: a call whose severity is outside [0,1] is rejected and has no
\* effect: no propagation is started, and every node's stored risk and the
\* graph are what they were before the call.
C15_SeverityValidated ==
    [][(/\ AnalyzeCalled
        /\ \/ run'.initial_disaster.severity < 0
           \/ run'.initial_disaster.severity > Scale)
       => /\ run'.pc # "propagating"
          /\ node_risks' = node_risks
          /\ graph_nodes' = graph_nodes
          /\ graph_edges' = graph_edges
          /\ graph_attr' = graph_attr]_vars

\* C16: a run started where no registered node is near starts from a virtual
\* node that has an edge of weight 0.7 to every registered node, and the
\* virtual node is gone when the call has returned: the graph then has the
\* nodes and the edges of the registered infrastructure, as before the call.
C16_VirtualNodeTransient ==
    /\ [][(AnalyzeCalled /\ find_nearest_node(Analyzer, run'.initial_disaster.location) = "None")
            => /\ run'.affected_node = "disaster_zone"
               /\ \A n \in Range(SeedNodes) :
                     \E i \in 1..Len(graph_edges') :
                        /\ graph_edges'[i].source = "disaster_zone"
                        /\ graph_edges'[i].target = n
                        /\ graph_edges'[i].weight = 70]_vars
    /\ [](run.pc = "done" =>
            /\ graph_nodes = SeedNodes
            /\ graph_edges = SeedEdges)

\* ========================================================================
\* Claims about the graph store of the forecast engine
\* ========================================================================
IsPrefix(p, q) == Len(p) <= Len(q) /\ SubSeq(q, 1, Len(p)) = p

\* C17: no step of a prediction run (its start, the simulation, the end
\* with the strategy generation) changes a node, an edge or a
\* CriticalNodeAnalysis; the history is only changed by the one append made
\* when the simulation has finished, and the strategy store only grows.
C17_PredictionFrame ==
    [][(gen.pc = "simulating" \/ gen'.pc = "simulating") =>
        /\ nodes' = nodes
        /\ edges' = edges
        /\ critical_node_analyses' = critical_node_analyses
        /\ IsPrefix(pre_stabilization_strategies, pre_stabilization_strategies')
        /\ \/ cascade_predictions' = cascade_predictions
           \/ /\ gen.pc = "simulating"
              /\ gen.propagation_queue = << >>
              /\ gen'.pc = "idle"
              /\ cascade_predictions'
                    = LastN(Append(cascade_predictions, Last(cascade_predictions')),
                            HistoryCap)]_vars

\* a prediction run in which a dependent failed has ended
C17_Witness ==
    /\ gen.pc = "idle"
    /\ cascade_predictions # << >>
    /\ Len(Last(cascade_predictions).affected_nodes) >= 2

\* the edge id f"{source}_{target}" as str.split("_") sees it
EdgeIdTokens(edge_id) == Tokens(edge_id[1]) \o Tokens(edge_id[2])

\* C18: the dependency and dependent lists are the inverse of the edge set:
\* the edge (A -> B) is stored exactly when B.dependencies contains A, and
\* exactly when A.dependents contains B; every stored edge joins two nodes
\* of the store, and no two dependencies share an edge id.
C18_ListsInverseOfEdges ==
    /\ \A B \in DOMAIN nodes :
          Range(nodes[B].dependencies) = {A \in DOMAIN nodes : <<A, B>> \in DOMAIN edges}
    /\ \A A \in DOMAIN nodes :
          Range(nodes[A].dependents) = {B \in DOMAIN nodes : <<A, B>> \in DOMAIN edges}
    /\ \A edge_id \in DOMAIN edges :
          /\ edges[edge_id].source_node = edge_id[1]
          /\ edges[edge_id].target_node = edge_id[2]
          /\ edges[edge_id].source_node \in DOMAIN nodes
          /\ edges[edge_id].target_node \in DOMAIN nodes
    /\ Cardinality({EdgeIdTokens(edge_id) : edge_id \in DOMAIN edges})
          = Cardinality(DOMAIN edges)

\* the engine after monitor ticks and a prediction run that followed an edge
C18_Witness ==
    /\ counters.ticks >= 2
    /\ gen.pc = "idle"
    /\ cascade_predictions # << >>
    /\ LET affected == Last(cascade_predictions).affected_nodes
       IN  /\ Len(affected) >= 2
           /\ <<affected[1], affected[2]>> \in DOMAIN edges

InUnitInterval(x) == 0 <= x /\ x <= Scale

\* the scores the engine holds in its stores
StoredScoresInRange ==
    /\ \A node_id \in DOMAIN nodes :
          /\ InUnitInterval(nodes[node_id].health_score)
          /\ InUnitInterval(nodes[node_id].criticality_score)
    /\ \A node_id \in DOMAIN critical_node_analyses :
          InUnitInterval(critical_node_analyses[node_id].vulnerability_score)
    /\ \A i \in 1..Len(cascade_predictions) :
          InUnitInterval(cascade_predictions[i].cascade_probability)

\* C19: cascade probability, vulnerability, health and criticality lie in
\* [0,1] for every value the engine stores or returns, after any monitor
\* ticks and calls to predict_cascade and predict_cascade_failure, on the
\* error paths as well.
C19_ScoresInUnitInterval ==
    /\ StoredScoresInRange
    /\ "cascading_failure_probability" \in DOMAIN last_forecast =>
          InUnitInterval(last_forecast.cascading_failure_probability)

\* the FailureMode value of the string the caller of predict_cascade passed
RequestedMode == FailureModeOf(Lower(last_call.failure_mode))

\* C20: for an existing node and a valid failure mode, the propagation that
\* predict_cascade(node, mode) starts is simulated with the requested mode
\* and the prediction it returns carries failure_mode = mode.
C20_RequestedModeCarried ==
    /\ (gen.pc = "simulating" /\ gen.caller = "api")
          => gen.failure_mode = RequestedMode
    /\ last_call.outcome = "prediction"
          => \A i \in 1..Len(cascade_predictions) :
                cascade_predictions[i].prediction_id = last_call.prediction_id
                   => cascade_predictions[i].failure_mode = RequestedMode

\* ========================================================================
\* Claims about the queries of DigitalTwinCascadeForecastEngine
\* ========================================================================
QueryMade == counters'.queries = counters.queries + 1

\* C21: two calls of get_critical_nodes with the same limit return the same
\* ordered output, whatever monitor ticks and prediction runs happen between
\* them (the graph itself is never changed).
C21_CriticalNodesIdempotent ==
    [][(QueryMade /\ last_critical'.limit = last_critical.limit)
          => last_critical'.result = last_critical.result]_vars

\* a second call with the limit of the first, two ticks and a prediction later
C21_Witness ==
    /\ counters.queries = 2
    /\ last_critical.limit = 3
    /\ last_critical.previous[1] = 3
    /\ last_critical.tick >= last_critical.previous[2] + 2
    /\ counters.predictions >= 1
    /\ Len(last_critical.result) = 3

\* C22: get_critical_nodes(limit) returns min(limit, number of nodes)
\* analyses in non-increasing order of stabilization_priority, and no
\* analysis left out has a higher priority than the lowest one returned.
C22_CriticalNodesOrdered ==
    last_critical.limit >= 0 =>
        LET result   == last_critical.result
            returned == {result[i].node_id : i \in 1..Len(result)}
        IN  /\ Len(result) = Min(last_critical.limit, Cardinality(DOMAIN nodes))
            /\ Cardinality(returned) = Len(result)
            /\ \A i \in 1..Len(result) :
                  result[i] = critical_node_analyses[result[i].node_id]
            /\ \A i \in 1..(Len(result) - 1) :
                  result[i].stabilization_priority >= result[i + 1].stabilization_priority
            /\ \A node_id \in DOMAIN critical_node_analyses \ returned :
                  \A i \in 1..Len(result) :
                     critical_node_analyses[node_id].stabilization_priority
                        <= result[i].stabilization_priority

\* a call that returned some analyses and left others out, of differing priorities
C22_Witness ==
    /\ last_critical.limit = 3
    /\ Len(last_critical.result) = 3
    /\ last_critical.result[1].stabilization_priority
          > last_critical.result[3].stabilization_priority
    /\ \E node_id \in DOMAIN critical_node_analyses :
          critical_node_analyses[node_id].stabilization_priority
             < last_critical.result[3].stabilization_priority

\* Scenario A: an earthquake of severity 0.9 at power_grid_1
ScenarioA == [type |-> "earthquake", severity |-> 900000, location |-> AtPowerGrid]

\* the pairs of disaster type and node type the impact matrix has an entry for
InMatrix(disaster_type, node_type) ==
    /\ disaster_type \in {"flood", "fire", "earthquake", "cyclone"}
    /\ node_type \in {"power", "water", "healthcare", "telecom"}

\* C24: on a fresh analyzer the run of Scenario A sets the risk of
\* power_grid_1 to min(1, 0.9 * 0.95) = 0.855, and the risk it propagates
\* over the weight-0.80 edge to telecom_1 is 0.855 * 0.80 * 1.1 * (1 - 0.5 *
\* 0.3) = 0.63954; for a pair of disaster type and node type that is not in
\* the impact matrix the multiplier is 0.75.
C24_ScenarioNumbers ==
    [][/\ (RunStarts /\ runs = 0 /\ run'.initial_disaster = ScenarioA)
           => /\ run'.affected_node = "power_grid_1"
              /\ run'.initial_risk = 855000
              /\ node_risks'["power_grid_1"] = 855000
       /\ (/\ runs = 1
           /\ run.pc = "propagating"
           /\ run.initial_disaster = ScenarioA
           /\ run.work # << >>
           /\ run'.work = Tail(run.work)
           /\ Head(run.work).node_id = "power_grid_1"
           /\ Head(run.work).neighbor = "telecom_1")
           => /\ Head(run.work).edge_weight = 80
              /\ node_risks'["telecom_1"] = 639540
       /\ (/\ RunStarts
           /\ ~InMatrix(run'.initial_disaster.type,
                        graph_attr'[run'.affected_node].type))
           => run'.initial_risk
                 = Min(Scale, (run'.initial_disaster.severity * 75) \div 100)]_vars

\* Scenario A has run on the fresh analyzer and reached telecom_1
C24_Witness ==
    /\ runs = 1
    /\ run.pc = "done"
    /\ run.initial_disaster = ScenarioA
    /\ node_risks["power_grid_1"] = 855000
    /\ node_risks["telecom_1"] = 639540

\* the visit of one edge by the inner loop
EdgeVisited ==
    /\ run.pc = "propagating"
    /\ run.work # << >>
    /\ run'.work = Tail(run.work)

\* the run ends in this step
RunEnds == run.pc = "propagating" /\ run'.pc = "done"

\* the edge visits due to the nodes recorded before the step `step`
VisitsBefore(affected_nodes, step) ==
    WorkList(SelectSeq(affected_nodes, LAMBDA entry : entry.step < step), graph_edges, 1)

HigherCandidateAtRecordedTarget ==
    /\ run.pc = "propagating"
    /\ run.work # << >>
    /\ already_processed(run.affected_nodes, Head(run.work).neighbor, run.step)
    /\ final_risk_of(Analyzer, Head(run.work)) > node_risks[Head(run.work).neighbor]

\* ========================================================================
\* Claims about both services
\* ========================================================================
\* time_minutes never decreases along the timeline
Chronological(timeline) ==
    \A i \in 1..(Len(timeline) - 1) :
        timeline[i].time_minutes <= timeline[i + 1].time_minutes

\* the timeline returned by the analyze_cascading_risk call that has ended
AnalyzerTimelineOrdered ==
    run.pc = "done" =>
        LET timeline == run.result.cascade_timeline
        IN  /\ timeline # << >>
            /\ timeline[1].node_id = run.affected_node
            /\ timeline[1].time_minutes = 0
            /\ Chronological(timeline)
            /\ \A i \in 1..(Len(timeline) - 1) : timeline[i].step <= timeline[i + 1].step

\* the timelines of the stored predictions and of the run in progress
EngineTimelinesOrdered ==
    /\ \A k \in 1..Len(cascade_predictions) :
          LET prediction == cascade_predictions[k]
              timeline   == prediction.cascade_timeline
          IN  /\ timeline # << >>
              /\ timeline[1].node = prediction.initial_failure_node
              /\ timeline[1].time_minutes = 0
              /\ Chronological(timeline)
              /\ prediction.affected_nodes
                    = [i \in 1..Len(timeline) |-> timeline[i].node]
    /\ gen.pc = "simulating" => Chronological(gen.timeline)

\* C23: every produced cascade_timeline is chronological: time_minutes never
\* decreases from one entry to the next, the first entry is the initial node
\* at time 0, and the affected nodes are listed in the order in which they
\* were first affected; for the predictions of the engine and for the
\* results of analyze_cascading_risk.
C23_TimelinesChronological ==
    /\ AnalyzerTimelineOrdered
    /\ EngineTimelinesOrdered

\* a run whose affected_nodes dictionary is not in order of time, and that
\* reached nodes at a second step
C23_Witness ==
    /\ run.pc = "done"
    /\ \E i \in 1..(Len(run.affected_nodes) - 1) :
          run.affected_nodes[i].time_minutes > run.affected_nodes[i + 1].time_minutes
    /\ \E i \in 1..Len(run.result.cascade_timeline) :
          run.result.cascade_timeline[i].step >= 2

\* ========================================================================
\* Claims about the seed topology of DigitalTwinCascadeForecastEngine
\* ========================================================================
\* C26: on the seed topology every prediction, of a monitor tick or of
\* predict_cascade for any node, has at most 10 affected nodes, so its
\* cascade_probability is at most 10/18 and below the 0.7 gate; the strategy
\* store is empty in every reachable state, and so is what
\* get_pre_stabilization_strategies returns.
C26_GateNeverOpens ==
    /\ Cardinality(NodeSet) = 18
    /\ Cardinality(DOMAIN edges) = 21
    /\ \A k \in 1..Len(cascade_predictions) :
          /\ Len(cascade_predictions[k].affected_nodes) <= 10
          /\ cascade_predictions[k].cascade_probability <= (10 * Scale) \div 18
          /\ cascade_predictions[k].cascade_probability <= 700000
    /\ gen.pc = "simulating" => Cardinality(gen.failed_nodes) <= 10
    /\ pre_stabilization_strategies = << >>
    /\ counters.strategies = 0
    /\ \A limit \in Limits : get_pre_stabilization_strategies(Engine, limit) = << >>

\* a prediction that reached 10 nodes
C26_Witness ==
    /\ cascade_predictions # << >>
    /\ Len(Last(cascade_predictions).affected_nodes) = 10
    /\ Last(cascade_predictions).cascade_probability = (10 * Scale) \div 18
    /\ pre_stabilization_strategies = << >>

\* the strategies stored in this step
NewStrategies ==
    SubSeq(pre_stabilization_strategies', Len(pre_stabilization_strategies) + 1,
           Len(pre_stabilization_strategies'))

\* C27: every id in target_nodes of every strategy that
\* _generate_pre_stabilization_strategies stores for a prediction is the id
\* of a node of the store and one of the prediction's affected nodes; the
\* target nodes of the dependency-strengthening strategy are the targets of
\* the edges it lists.
C27_StrategyTargetsAreNodes ==
    [][\A k \in 1..Len(NewStrategies) :
          LET strategy   == NewStrategies[k]
              prediction == Last(cascade_predictions')
          IN  /\ \A i \in 1..Len(strategy.target_nodes) :
                    /\ strategy.target_nodes[i] \in DOMAIN nodes
                    /\ strategy.target_nodes[i] \in Range(prediction.affected_nodes)
              /\ strategy.stabilization_actions[1].action_type = "dependency_strengthening"
                    => strategy.target_nodes
                          = [i \in 1..Len(strategy.stabilization_actions[1].targets) |->
                                edges[strategy.stabilization_actions[1].targets[i]].target_node]]_vars

\* the number of edges the failure followed from the initial node to the
\* node of the i-th event of the timeline
RECURSIVE ChainLength(_, _)
ChainLength(timeline, i) ==
    IF timeline[i].source_node = "None" THEN 0
    ELSE 1 + ChainLength(timeline,
                         CHOOSE j \in 1..(i - 1) : timeline[j].node = timeline[i].source_node)

\* the shape of the lists of one run of _simulate_cascade_propagation
RunWellFormed(initial_node, affected_nodes, timeline) ==
    /\ affected_nodes # << >>
    /\ affected_nodes[1] = initial_node
    /\ \A i \in 1..Len(affected_nodes), j \in 1..Len(affected_nodes) :
          affected_nodes[i] = affected_nodes[j] => i = j
    /\ Len(timeline) = Len(affected_nodes)
    /\ \A i \in 1..Len(timeline) : timeline[i].node = affected_nodes[i]
    /\ timeline[1].source_node = "None"
    /\ \A i \in 2..Len(timeline) :
          /\ \E j \in 1..(i - 1) : affected_nodes[j] = timeline[i].source_node
          /\ <<timeline[i].source_node, timeline[i].node>> \in DOMAIN edges
    /\ \A i \in 1..Len(timeline) : ChainLength(timeline, i) <= 6

\* C28: in every run of _simulate_cascade_propagation, whatever the draws:
\* affected_nodes starts with the initial node and holds no node twice; every
\* other affected node was added while a node that failed earlier in the run
\* and has a dependency edge to it was expanded (the source_node of its
\* event); no node is expanded at a depth above 5, so no affected node lies
\* more than 6 edges from the initial node; the timeline has one event per
\* affected node; and the run terminates on the cyclic seed graph.
C28_SimulationRun ==
    /\ [](gen.pc = "simulating" =>
            /\ RunWellFormed(gen.initial_failure_node, gen.affected_nodes, gen.timeline)
            /\ Range(gen.affected_nodes) = gen.failed_nodes
            /\ \A i \in 1..Len(gen.propagation_queue) :
                  /\ gen.propagation_queue[i][1] \in gen.failed_nodes
                  /\ gen.propagation_queue[i][2] <= 6)
    /\ [](\A k \in 1..Len(cascade_predictions) :
            RunWellFormed(cascade_predictions[k].initial_failure_node,
                          cascade_predictions[k].affected_nodes,
                          cascade_predictions[k].cascade_timeline))
    /\ [][(gen.pc = "simulating" /\ gen'.pc = "simulating"
            /\ Head(gen.propagation_queue)[2] > 5)
           => gen'.affected_nodes = gen.affected_nodes]_vars
    /\ (gen.pc = "simulating") ~> (gen.pc = "idle")

\* a node at depth 6 is taken from the queue and has a dependent that has
\* not failed
C28_Witness ==
    /\ gen.pc = "simulating"
    /\ gen.propagation_queue # << >>
    /\ Head(gen.propagation_queue)[2] = 6
    /\ Candidates(Engine, Head(gen.propagation_queue)[1]) # {}

\* C29: the traversal of _calculate_cascade_contribution terminates for
\* every start node on the cyclic seed graph, expands each node at most once
\* (a visited node contributes no further recursive term), expands no node
\* at a depth above 5, and the score returned is in [0,1].
C29_ContributionTraversal ==
    \A node_id \in DOMAIN nodes :
        LET traversal == dfs_contribution(node_id, 0, {}, << >>)
            expanded  == traversal.expanded
        IN  /\ expanded[1] = <<node_id, 0>>
            /\ \A i \in 1..Len(expanded), j \in 1..Len(expanded) :
                  expanded[i][1] = expanded[j][1] => i = j
            /\ \A i \in 1..Len(expanded) : expanded[i][2] <= 5
            /\ {expanded[i][1] : i \in 1..Len(expanded)} = traversal.visited
            /\ critical_node_analyses[node_id].cascade_contribution_score
                  = Min(Scale, traversal.contribution \div 10)
            /\ critical_node_analyses[node_id].cascade_contribution_score >= 0
            /\ critical_node_analyses[node_id].cascade_contribution_score <= Scale

\* the traversal from power_main_mumbai comes back to it over comm_control
\* and goes on to other nodes
C29_Witness ==
    LET traversal == dfs_contribution("power_main_mumbai", 0, {}, << >>)
    IN  /\ "comm_control" \in traversal.visited
        /\ <<"comm_control", "power_main_mumbai">> \in DOMAIN edges
        /\ Len(traversal.expanded) >= 5
        /\ critical_node_analyses["power_main_mumbai"].cascade_contribution_score > 0

\* ========================================================================
\* Claims about the degradation of the nodes
\* ========================================================================
TickMade == counters'.ticks = counters.ticks + 1

\* C30: a node's health_score never increases: over any sequence of monitor
\* ticks it is non-increasing and stays in (0,1]; so a node that was flagged
\* for health_score < 0.6 is flagged again on every later tick and receives a
\* new prediction on every later tick (each flagged node's generation is
\* started, ends, and stores a prediction of that node with a new id).
C30_HealthNeverIncreases ==
    /\ [][\A node_id \in DOMAIN nodes :
             nodes'[node_id].health_score <= nodes[node_id].health_score]_vars
    /\ [](\A node_id \in DOMAIN nodes :
             nodes[node_id].health_score > 0 /\ nodes[node_id].health_score <= Scale)
    /\ [][TickMade =>
             \A node_id \in DOMAIN nodes :
                nodes[node_id].health_score < 600000
                   => node_id \in Range(monitor'.high_risk_nodes)]_vars
    /\ \A node_id \in NodeSet :
          (node_id \in Range(monitor.high_risk_nodes))
             ~> (gen.pc = "simulating" /\ gen.caller = "monitor"
                 /\ gen.initial_failure_node = node_id)
    /\ (gen.pc = "simulating") ~> (gen.pc = "idle")
    /\ [][(gen.pc = "simulating" /\ gen.caller = "monitor" /\ gen'.pc = "idle")
             => /\ Last(cascade_predictions').initial_failure_node = gen.initial_failure_node
                /\ Last(cascade_predictions').prediction_id = counters.predictions + 1
                /\ \A i \in 1..Len(cascade_predictions) :
                      cascade_predictions[i].prediction_id <= counters.predictions]_vars

\* a node flagged on two ticks, with a prediction from each
C30_Witness ==
    /\ monitor.pc = "sleeping"
    /\ nodes["telecom_west"].health_score < 600000
    /\ nodes["telecom_west"].health_score > 0
    /\ Cardinality({i \in 1..Len(cascade_predictions) :
                       cascade_predictions[i].initial_failure_node = "telecom_west"}) >= 2

====
